---- MODULE Spec2Model ----
(***************************************************************************)
(* A model of the rslox front end: the lexer of src/src/lib.rs, the        *)
(* recursive-descent parser of src/src/parser.rs and the resolver of       *)
(* src/src/resolver.rs.                                                    *)
(*                                                                         *)
(* Every Rust method `fn f(&mut self, ..) -> ParseResult<T>` is an         *)
(* operator f(p, ..) over the parser record p (the fields of struct        *)
(* Parser) that yields [p |-> the parser afterwards, ok |-> Ok or Err,     *)
(* v |-> the value or the error].  A `?` is "IF ~r.ok THEN r".  A panic    *)
(* (index out of bounds, overflow in a checked build) sets p.aborted and   *)
(* unwinds through every caller.                                           *)
(***************************************************************************)
EXTENDS Integers, Sequences, FiniteSets, TLC

VARIABLES
    parser,       \* struct Parser: tokens, position, errors, delimiter_stack; with
                  \* aborted (a panic unwound the parse), overflow_checks (the
                  \* build: debug-assertions on or off) and stalled (an iteration
                  \* of a block's statement loop left the cursor where it stood)
    statements,   \* the local `statements` of Parser::parse
    program,      \* the Program returned by Parser::parse (<<>> before)
    ppc,          \* where Parser::parse stands: "parse", "done", "aborted", "idle"
    lexer,        \* struct Lexer: source, tokens, position, start
    lpc,          \* where Lexer::lex stands: "lex", "done", "idle"
    resolver,     \* struct Resolver: program, errors, scopes
    todo,         \* the statements Resolver::resolve has still to visit
    rpc           \* where Resolver::resolve stands: "resolve", "done", "idle"

vars == <<parser, statements, program, ppc, lexer, lpc, resolver, todo, rpc>>

(***************************************************************************)
(* Bounds of the model.                                                    *)
(***************************************************************************)
MaxLen == 3
MaxSrcLen == 4

(***************************************************************************)
(* Tokens as the parser receives them: a kind, a span and the lexeme (the  *)
(* payload of Ident, Number and String).  The token sequence of a program  *)
(* is laid out with one blank after every lexeme and ends with the EOF     *)
(* token, an empty span at the end of the source.                          *)
(***************************************************************************)
IdentNames == {"x", "y", "f", "a", "b", "c", "i", "g"}
NumberLexemes == {"0", "1", "2", "3"}

KindOf(lx) ==
    CASE lx = "(" -> "LeftParen"
      [] lx = ")" -> "RightParen"
      [] lx = "{" -> "LeftBrace"
      [] lx = "}" -> "RightBrace"
      [] lx = "," -> "Comma"
      [] lx = ";" -> "Semicolon"
      [] lx = "=" -> "Equal"
      [] lx = "+" -> "Plus"
      [] lx = "-" -> "Minus"
      [] lx = "*" -> "Star"
      [] lx = "/" -> "Slash"
      [] lx = "!" -> "Bang"
      [] lx = "!=" -> "BangEqual"
      [] lx = "==" -> "EqualEqual"
      [] lx = "<" -> "Less"
      [] lx = "<=" -> "LessEqual"
      [] lx = ">" -> "Greater"
      [] lx = ">=" -> "GreaterEqual"
      [] lx = "or" -> "Or"
      [] lx = "and" -> "And"
      [] lx = "var" -> "Var"
      [] lx = "fun" -> "Fun"
      [] lx = "print" -> "Print"
      [] lx = "if" -> "If"
      [] lx = "else" -> "Else"
      [] lx = "while" -> "While"
      [] lx = "for" -> "For"
      [] lx = "return" -> "Return"
      [] lx = "true" -> "True"
      [] lx = "false" -> "False"
      [] lx = "nil" -> "Nil"
      [] lx = "str" -> "String"
      [] lx \in NumberLexemes -> "Number"
      [] lx \in IdentNames -> "Ident"

LexemeLen(lx) ==
    CASE lx \in {"!=", "==", "<=", ">=", "or", "if"} -> 2
      [] lx \in {"and", "var", "fun", "for", "nil", "str"} -> 3
      [] lx \in {"else", "true"} -> 4
      [] lx \in {"print", "while", "false"} -> 5
      [] lx = "return" -> 6
      [] OTHER -> 1

Sp(o, l) == [offset |-> o, len |-> l]

Token(lx, o) == [token_kind |-> KindOf(lx), span |-> Sp(o, LexemeLen(lx)), lexeme |-> lx]

RECURSIVE LayOut(_, _)
LayOut(lxs, o) ==
    IF lxs = <<>>
    THEN <<[token_kind |-> "EOF", span |-> Sp(o, 0), lexeme |-> ""]>>
    ELSE <<Token(Head(lxs), o)>> \o LayOut(Tail(lxs), o + LexemeLen(Head(lxs)) + 1)

MkTokens(lxs) == LayOut(lxs, 0)

(***************************************************************************)
(* Results of a ParseResult-returning method.                              *)
(***************************************************************************)
Ok(p, v) == [p |-> p, ok |-> TRUE, v |-> v]
Err(p, e) == [p |-> p, ok |-> FALSE, v |-> e]
Panic(p) == [p |-> [p EXCEPT !.aborted = TRUE], ok |-> FALSE, v |-> [kind |-> "panic"]]
Unit == <<>>
None == <<>>
Some(v) == <<v>>

\* `let x = r?; K(x)`: an Err (a panic too) returns from the method at once
Try(r, K(_)) == IF r.ok THEN K(r) ELSE r

\* `let x = e; K(x)`
Let(x, K(_)) == K(x)

(***************************************************************************)
(* The cursor (parser.rs 27-79).                                           *)
(***************************************************************************)
current(p) == p.tokens[p.position + 1]

\* Vec indexing panics when position + 1 is not an index of tokens.
peek_in_bounds(p) == p.position + 1 < Len(p.tokens)
peek(p) == p.tokens[p.position + 2]

previous(p) == p.tokens[p.position]

at_eof(p) == current(p).token_kind = "EOF"

advance_position(p) == IF ~at_eof(p) THEN [p EXCEPT !.position = @ + 1] ELSE p

current_is(p, kind) == current(p).token_kind = kind

matches(p, kinds) == \E kind \in kinds : current_is(p, kind)

\* consume returns matches(p, kinds) and leaves the parser as consumed(p, kinds)
consumed(p, kinds) == IF matches(p, kinds) THEN advance_position(p) ELSE p

(***************************************************************************)
(* Spans (parser.rs 81-96).  usize subtraction: a negative len stands for  *)
(* the wrapped value 2^64 + len of an unchecked build.                     *)
(***************************************************************************)
create_span(start, end) ==
    LET left == start.offset
        right == end.offset + end.len
    IN Sp(left, right - left)

create_span_overflows(start, end) == end.offset + end.len < start.offset

next_span(current_span) == Sp(current_span.offset + current_span.len, 0)

(***************************************************************************)
(* Diagnostics (crate::error::ParseError as used by parser.rs).            *)
(***************************************************************************)
Diag(kind, span) == [kind |-> kind, span |-> span]

report(p, error) == [p EXCEPT !.errors = Append(@, error)]

(***************************************************************************)
(* Recovery (parser.rs 152-202).                                           *)
(***************************************************************************)
RECURSIVE eat_to_tokens(_, _)
eat_to_tokens(p, kinds) ==
    IF ~at_eof(p) /\ ~matches(p, kinds)
    THEN eat_to_tokens(advance_position(p), kinds)
    ELSE p

RECURSIVE skip_to_stmt_end(_)
skip_to_stmt_end(p) ==
    IF ~matches(p, {"Semicolon", "RightBrace"}) /\ ~at_eof(p)
    THEN skip_to_stmt_end(advance_position(p))
    ELSE p
\* skip_to_next_stmt, but the `;` it stops on stays unconsumed
skip_to_next_stmt_before_semicolon(p) == skip_to_stmt_end(p)

skip_to_next_stmt(p) ==
    LET q == skip_to_stmt_end(p)
    IN IF matches(q, {"Semicolon"}) THEN advance_position(q) ELSE q

skip_to_next_paren(p) == eat_to_tokens(p, {"LeftParen"})

RECURSIVE skip_braces(_, _)
skip_braces(p, brace_count) ==
    IF brace_count > 0 /\ ~at_eof(p)
    THEN CASE current(p).token_kind = "LeftBrace" ->
                skip_braces(advance_position(p), brace_count + 1)
           [] current(p).token_kind = "RightBrace" ->
                skip_braces(advance_position(p), brace_count - 1)
           [] OTHER -> skip_braces(advance_position(p), brace_count)
    ELSE p

skip_next_block(p) ==
    skip_braces(advance_position(eat_to_tokens(p, {"LeftBrace"})), 1)

expect_block(p) ==
    IF ~matches(p, {"LeftBrace"})
    THEN Err(skip_next_block(p), Diag("MissingBlock", current(p).span))
    ELSE Ok(p, Unit)

\* expect_semicolon, but the diagnostic is placed on the token found instead
\* of after the previous one
expect_semicolon_at_current(p) ==
    IF matches(p, {"Semicolon"})
    THEN advance_position(p)
    ELSE skip_to_next_stmt(report(p, Diag("MissingSemicolon", current(p).span)))

expect_semicolon(p) ==
    IF matches(p, {"Semicolon"})
    THEN advance_position(p)
    ELSE skip_to_next_stmt(
            report(p, Diag("MissingSemicolon", next_span(previous(p).span))))

expect_expr(result, side, span) ==
    IF result.ok \/ result.p.aborted
    THEN result
    ELSE Err(result.p, [kind |-> "MissingOperand", span |-> span, side |-> side])

(***************************************************************************)
(* The delimiter stack (parser.rs 204-262).                                *)
(***************************************************************************)
open_delimiter(p, open_delim) ==
    LET current_token == current(p)
    IN IF open_delim \in {"LeftParen", "LeftBrace"}
       THEN Ok(advance_position(
                  [p EXCEPT !.delimiter_stack =
                      Append(@, [delimiter |-> open_delim, span |-> current_token.span])]),
               Unit)
       ELSE Err(advance_position(p),
                [kind |-> "UnexpectedToken", span |-> current_token.span,
                 found |-> current_token.token_kind,
                 expected |-> "an opening delimiter"])

expected_closing(open_delim) ==
    IF open_delim = "LeftParen" THEN "RightParen" ELSE "RightBrace"
\* close_delimiter, but a closing delimiter met with an empty stack stays unconsumed
close_delimiter_unconsumed(p, close_delim) ==
    IF p.delimiter_stack = <<>>
    THEN Err(p, [kind |-> "UnexpectedClosingDelimiter", span |-> current(p).span,
                 delimiter |-> close_delim])
    ELSE LET last_delimiter == p.delimiter_stack[Len(p.delimiter_stack)]
             q == [p EXCEPT !.delimiter_stack = SubSeq(@, 1, Len(@) - 1)]
         IN IF close_delim # expected_closing(last_delimiter.delimiter)
            THEN Err(q, [kind |-> "UnmatchedDelimiter",
                         opening_span |-> last_delimiter.span,
                         closing_span |-> current(q).span,
                         expected |-> expected_closing(last_delimiter.delimiter),
                         found |-> current(q).token_kind])
            ELSE Ok(advance_position(q), Unit)

close_delimiter(p, close_delim) ==
    IF p.delimiter_stack = <<>>
    THEN LET q == advance_position(p)
         IN Err(q, [kind |-> "UnexpectedClosingDelimiter", span |-> previous(q).span,
                    delimiter |-> close_delim])
    ELSE LET last_delimiter == p.delimiter_stack[Len(p.delimiter_stack)]
             q == [p EXCEPT !.delimiter_stack = SubSeq(@, 1, Len(@) - 1)]
         IN IF close_delim # expected_closing(last_delimiter.delimiter)
            THEN Err(q, [kind |-> "UnmatchedDelimiter",
                         opening_span |-> last_delimiter.span,
                         closing_span |-> current(q).span,
                         expected |-> expected_closing(last_delimiter.delimiter),
                         found |-> current(q).token_kind])
            ELSE Ok(advance_position(q), Unit)

(***************************************************************************)
(* AST nodes (crate::ast as built by parser.rs).  Option<T> is a sequence  *)
(* of at most one element.                                                 *)
(***************************************************************************)
Ident(name, span) == [name |-> name, span |-> span]
Literal(lit, value, span) == [node |-> "Literal", lit |-> lit, value |-> value, span |-> span]
Variable(ident) == [node |-> "Variable", name |-> ident.name, span |-> ident.span]
Binary(left, op, right, span) ==
    [node |-> "Binary", left |-> left, op |-> op, right |-> right, span |-> span]
Logical(left, op, right, span) ==
    [node |-> "Logical", left |-> left, op |-> op, right |-> right, span |-> span]
Unary(op, expr, span) == [node |-> "Unary", op |-> op, expr |-> expr, span |-> span]
Grouping(expr, span) == [node |-> "Grouping", expr |-> expr, span |-> span]
Assign(target, value, span) ==
    [node |-> "Assign", target |-> target, value |-> value, span |-> span]
Call(callee, arguments, span) ==
    [node |-> "Call", callee |-> callee, arguments |-> arguments, span |-> span]
Lambda(parameters, body, span) ==
    [node |-> "Lambda", parameters |-> parameters, body |-> body, span |-> span]
BlockStmt(stmts, span) == [statements |-> stmts, span |-> span]
Block(b) == [node |-> "Block", statements |-> b.statements, span |-> b.span]
ExprStmt(expr, span) == [node |-> "ExprStmt", expr |-> expr, span |-> span]
PrintStmt(expr, span) == [node |-> "PrintStmt", expr |-> expr, span |-> span]
VarDecl(ident, initializer, span) ==
    [node |-> "VarDecl", ident |-> ident, initializer |-> initializer, span |-> span]
FunDecl(ident, params, body, span) ==
    [node |-> "FunDecl", ident |-> ident, params |-> params, body |-> body, span |-> span]
IfStmt(condition, then_branch, else_branch, span) ==
    [node |-> "If", condition |-> condition, then_branch |-> then_branch,
     else_branch |-> else_branch, span |-> span]
WhileStmt(condition, body, span) ==
    [node |-> "While", condition |-> condition, body |-> body, span |-> span]
Return(value, span) == [node |-> "Return", value |-> value, span |-> span]

(***************************************************************************)
(* The grammar.  name(p, ..) stands for the call self.name(..) with the    *)
(* parser in state p, and yields the parser after the call with the       *)
(* method's result.  expression, block and declaration are the methods    *)
(* the others call before their definition: they go through Parse.        *)
(***************************************************************************)
RECURSIVE Parse(_, _)

expression(p) == Parse("expression", p)
block(p) == Parse("block", p)
declaration(p) == Parse("declaration", p)

(***************************************************************************)
(* Expressions (parser.rs 782-1224), from primary up to expression.        *)
(***************************************************************************)
\* the arm of primary for '(': self.peek() indexes tokens at position + 1
grouping(p) ==
    Try(open_delimiter(p, current(p).token_kind), LAMBDA opened :
    IF ~peek_in_bounds(opened.p) THEN Panic(opened.p)
    ELSE IF peek(opened.p).token_kind = "RightParen"
    THEN Err(opened.p, Diag("ExpectedExpression",
                            create_span(current(p).span, peek(opened.p).span)))
    ELSE Try(expression(opened.p), LAMBDA expr :
         Try(close_delimiter(expr.p, current(expr.p).token_kind), LAMBDA closed :
         Ok(closed.p, Grouping(expr.v, create_span(current(p).span,
                                                   previous(closed.p).span))))))

\* the arm of primary for ')' and '}', but the diagnostic lies on the token after
closing_delimiter_next_span(p) ==
    Let(close_delimiter(p, current(p).token_kind), LAMBDA closed :
    IF ~closed.ok /\ closed.v.kind = "UnexpectedClosingDelimiter"
    THEN Err(closed.p, [closed.v EXCEPT !.span = current(closed.p).span])
    ELSE Err(closed.p, [kind |-> "UnexpectedClosingDelimiter",
                        span |-> current(closed.p).span,
                        delimiter |-> current(closed.p).token_kind]))

\* the arm of primary for ')' and '}'
closing_delimiter(p) ==
    Try(close_delimiter(p, current(p).token_kind), LAMBDA closed :
    Err(closed.p, [kind |-> "UnexpectedClosingDelimiter",
                   span |-> current(closed.p).span,
                   delimiter |-> current(closed.p).token_kind]))

primary(p) ==
    LET token == current(p)
    IN CASE token.token_kind \in {"RightBrace", "RightParen"} -> closing_delimiter(p)
         [] token.token_kind = "False" ->
              Ok(advance_position(p), Literal("Bool", "false", token.span))
         [] token.token_kind = "True" ->
              Ok(advance_position(p), Literal("Bool", "true", token.span))
         [] token.token_kind = "Nil" ->
              Ok(advance_position(p), Literal("Nil", "nil", token.span))
         [] token.token_kind = "LeftParen" -> grouping(p)
         [] token.token_kind = "Number" ->
              IF current(advance_position(p)).token_kind = "Ident"
              THEN Err(advance_position(p),
                       [kind |-> "InvalidVariableName", span |-> token.span,
                        message |-> "A variable cannot start with a number"])
              ELSE Ok(advance_position(p), Literal("Number", token.lexeme, token.span))
         [] token.token_kind = "String" ->
              Ok(advance_position(p), Literal("String", token.lexeme, token.span))
         [] token.token_kind = "Ident" ->
              Ok(advance_position(p), Variable(Ident(token.lexeme, token.span)))
         [] token.token_kind = "EOF" ->
              Err(p, [kind |-> "UnexpectedEOF", expected |-> "unexpected EOF"])
         [] token.token_kind = "Semicolon" ->
              Err(advance_position(p), Diag("RedundantSemicolon", token.span))
         [] OTHER ->
              Err(p, [kind |-> "UnexpectedToken", span |-> token.span,
                      found |-> token.token_kind, expected |-> "literal or '('"])

\* `while self.consume(&[Comma]) { arguments.push(self.expression()?) }`
RECURSIVE arguments_loop(_, _)
arguments_loop(p, arguments) ==
    IF matches(p, {"Comma"})
    THEN Try(expression(advance_position(p)), LAMBDA argument :
             arguments_loop(argument.p, Append(arguments, argument.v)))
    ELSE Ok(p, arguments)

call_arguments(p) ==
    IF ~matches(p, {"RightParen"})
    THEN Try(expression(p), LAMBDA argument : arguments_loop(argument.p, <<argument.v>>))
    ELSE Ok(p, <<>>)

finish_call(p, callee) ==
    Try(open_delimiter(p, current(p).token_kind), LAMBDA opened :
    IF matches(opened.p, {"EOF", "Semicolon"})
    THEN Err(opened.p, [kind |-> "UnclosedDelimiter", span |-> current(p).span,
                        delimiter |-> "LeftParen"])
    ELSE Try(call_arguments(opened.p), LAMBDA arguments :
         Try(close_delimiter(arguments.p, current(arguments.p).token_kind), LAMBDA closed :
         Ok(closed.p, Call(callee, arguments.v,
                           create_span(current(p).span, previous(closed.p).span))))))

RECURSIVE call_loop(_, _)
call_loop(p, expr) ==
    IF matches(p, {"LeftParen"})
    THEN Try(finish_call(p, expr), LAMBDA called : call_loop(called.p, called.v))
    ELSE Ok(p, expr)

call(p) ==
    Try(primary(p), LAMBDA expr : call_loop(expr.p, expr.v))

RECURSIVE unary(_)
unary(p) ==
    IF matches(p, {"Minus", "Bang"})
    THEN Try(expect_expr(unary(advance_position(p)), "right", current(p).span),
             LAMBDA right :
             Ok(right.p, Unary(current(p).token_kind, right.v,
                               create_span(current(p).span, previous(right.p).span))))
    ELSE call(p)

RECURSIVE factor_loop(_, _, _)
factor_loop(p, expr, facto_left_span) ==
    IF matches(p, {"Slash", "Star"})
    THEN Try(expect_expr(unary(advance_position(p)), "right", current(p).span),
             LAMBDA right :
             factor_loop(right.p,
                 Binary(expr, current(p).token_kind, right.v,
                        create_span(facto_left_span, previous(right.p).span)),
                 facto_left_span))
    ELSE Ok(p, expr)

factor(p) ==
    Try(unary(p), LAMBDA expr : factor_loop(expr.p, expr.v, current(p).span))

RECURSIVE term_loop(_, _, _)
term_loop(p, expr, term_left_span) ==
    IF matches(p, {"Plus", "Minus"})
    THEN Try(expect_expr(factor(advance_position(p)), "right", current(p).span),
             LAMBDA right :
             term_loop(right.p,
                 Binary(expr, current(p).token_kind, right.v,
                        create_span(term_left_span, previous(right.p).span)),
                 term_left_span))
    ELSE Ok(p, expr)

term(p) ==
    Try(factor(p), LAMBDA expr : term_loop(expr.p, expr.v, current(p).span))

RECURSIVE comparison_loop(_, _, _)
comparison_loop(p, expr, comparison_left_span) ==
    IF matches(p, {"Less", "LessEqual", "Greater", "GreaterEqual"})
    THEN Try(expect_expr(term(advance_position(p)), "right", current(p).span),
             LAMBDA right :
             comparison_loop(right.p,
                 Binary(expr, current(p).token_kind, right.v,
                        create_span(comparison_left_span, previous(right.p).span)),
                 comparison_left_span))
    ELSE Ok(p, expr)

comparison(p) ==
    Try(term(p), LAMBDA expr : comparison_loop(expr.p, expr.v, current(p).span))

RECURSIVE equality_loop(_, _, _)
equality_loop(p, expr, equality_left_span) ==
    IF matches(p, {"BangEqual", "EqualEqual"})
    THEN Try(expect_expr(comparison(advance_position(p)), "right", current(p).span),
             LAMBDA right :
             equality_loop(right.p,
                 Binary(expr, current(p).token_kind, right.v,
                        create_span(equality_left_span, previous(right.p).span)),
                 equality_left_span))
    ELSE Ok(p, expr)

equality(p) ==
    Try(comparison(p), LAMBDA expr : equality_loop(expr.p, expr.v, current(p).span))

RECURSIVE logic_and_loop(_, _, _)
logic_and_loop(p, expr, logic_and_left_span) ==
    IF matches(p, {"And"})
    THEN Let(advance_position(p), LAMBDA q :
         IF current_is(q, "Semicolon")
         THEN Ok(report(q, Diag("ExpectedExpression", current(q).span)),
                 Logical(expr, "And", Literal("Bool", "false", current(q).span),
                         create_span(logic_and_left_span, current(q).span)))
         ELSE Try(equality(q), LAMBDA right :
              logic_and_loop(right.p,
                  Logical(expr, "And", right.v,
                          create_span(logic_and_left_span, previous(right.p).span)),
                  logic_and_left_span)))
    ELSE Ok(p, expr)

logic_and(p) ==
    Try(equality(p), LAMBDA expr : logic_and_loop(expr.p, expr.v, current(p).span))

RECURSIVE logic_or_loop(_, _, _)
logic_or_loop(p, expr, logic_or_left_span) ==
    IF matches(p, {"Or"})
    THEN Let(advance_position(p), LAMBDA q :
         IF current_is(q, "Semicolon")
         THEN Ok(report(q, Diag("ExpectedExpression", current(q).span)),
                 Logical(expr, "Or", Literal("Bool", "false", current(q).span),
                         create_span(logic_or_left_span, current(q).span)))
         ELSE Try(logic_and(q), LAMBDA right :
              logic_or_loop(right.p,
                  Logical(expr, "Or", right.v,
                          create_span(logic_or_left_span, previous(right.p).span)),
                  logic_or_left_span)))
    ELSE Ok(p, expr)

\* logic_or, but the `;` found in place of the right operand is consumed
logic_or_semicolon_consumed(p) ==
    Try(logic_and(p), LAMBDA expr :
    Let(logic_or_loop(expr.p, expr.v, current(p).span), LAMBDA result :
    IF result.ok /\ Len(result.p.errors) > Len(expr.p.errors)
    THEN Ok(advance_position(result.p), result.v)
    ELSE result))

logic_or(p) ==
    Try(logic_and(p), LAMBDA expr : logic_or_loop(expr.p, expr.v, current(p).span))

\* `let value = self.expression().map_err(|_| ExpectedExpression {..})?`
assignment_value(result) ==
    IF result.ok \/ result.p.aborted
    THEN result
    ELSE Err(result.p, Diag("ExpectedExpression", previous(result.p).span))

\* assignment, but a target that is not a variable is reported at the target
assignment_error_at_target(p) ==
    Try(logic_or(p), LAMBDA expr :
    IF matches(expr.p, {"Equal"})
    THEN Try(assignment_value(expression(advance_position(expr.p))), LAMBDA value :
         IF expr.v.node = "Variable"
         THEN Ok(value.p, Assign(Ident(expr.v.name, expr.v.span), value.v,
                                 create_span(current(p).span, current(value.p).span)))
         ELSE Err(value.p, [kind |-> "ExpectedIdentifier", span |-> current(p).span,
                            context |-> "variable name"]))
    ELSE expr)

assignment(p) ==
    Try(logic_or(p), LAMBDA expr :
    IF matches(expr.p, {"Equal"})
    THEN Try(assignment_value(expression(advance_position(expr.p))), LAMBDA value :
         IF expr.v.node = "Variable"
         THEN Ok(value.p, Assign(Ident(expr.v.name, expr.v.span), value.v,
                                 create_span(current(p).span, current(value.p).span)))
         ELSE Err(value.p, [kind |-> "ExpectedIdentifier", span |-> current(expr.p).span,
                            context |-> "variable name"]))
    ELSE expr)

RECURSIVE parameters_loop(_, _, _)
parameters_loop(p, parameters, opening_paren_span) ==
    IF matches(p, {"EOF"})
    THEN Err(p, [kind |-> "UnclosedDelimiter", span |-> opening_paren_span,
                 delimiter |-> "LeftParen"])
    ELSE IF current(p).token_kind = "Ident"
    THEN Let(advance_position(p), LAMBDA q :
         Let(Append(parameters, Ident(current(p).lexeme, current(p).span)), LAMBDA params :
         CASE current(q).token_kind = "Comma" ->
                IF current_is(advance_position(q), "RightParen")
                THEN Err(advance_position(q),
                         [kind |-> "ExpectedIdentifier", span |-> current(q).span,
                          context |-> "parameter"])
                ELSE parameters_loop(advance_position(q), params, opening_paren_span)
           [] current(q).token_kind = "RightParen" ->
                Try(close_delimiter(q, current(q).token_kind), LAMBDA closed :
                    Ok(closed.p, params))
           [] current(q).token_kind = "EOF" ->
                Err(q, [kind |-> "UnexpectedEOF",
                        expected |-> "')' after function parameters"])
           [] OTHER ->
                Err(q, [kind |-> "UnexpectedToken", span |-> current(q).span,
                        found |-> current(q).token_kind,
                        expected |-> "',', or ')'"])))
    ELSE Err(skip_next_block(p),
             [kind |-> "ExpectedIdentifier", span |-> current(p).span,
              context |-> "parameter"])

parse_function_parameters(p) ==
    Try(open_delimiter(p, current(p).token_kind), LAMBDA opened :
    IF matches(opened.p, {"RightParen"})
    THEN Try(close_delimiter(opened.p, current(opened.p).token_kind), LAMBDA closed :
             Ok(closed.p, <<>>))
    ELSE parameters_loop(opened.p, <<>>, current(p).span))

lambda_expr(p) ==
    Try(parse_function_parameters(advance_position(p)), LAMBDA parameters :
    Try(block(parameters.p), LAMBDA body :
    Ok(body.p, Lambda(parameters.v, body.v,
                      create_span(current(p).span, previous(body.p).span)))))

expression_body(p) ==
    IF matches(p, {"Fun"}) THEN lambda_expr(p) ELSE assignment(p)

(***************************************************************************)
(* Declarations and statements (parser.rs 302-780).                        *)
(***************************************************************************)
parse_variable_name(p) ==
    LET var_keyword_span == previous(p).span
        variable_token == current(p)
    IN CASE variable_token.token_kind = "Ident" ->
              Ok(advance_position(p), Ident(variable_token.lexeme, variable_token.span))
         [] variable_token.token_kind = "Number" ->
              IF matches(p, {"Ident"})
              THEN Err(p, [kind |-> "InvalidVariableName", span |-> variable_token.span,
                           message |-> "A variable cannot start with a number"])
              ELSE Err(p, [kind |-> "InvalidVariableName", span |-> variable_token.span,
                           message |-> "A variable name cannot be a number"])
         [] variable_token.token_kind \in {"Semicolon", "Equal"} ->
              Err(p, [kind |-> "ExpectedIdentifier", span |-> var_keyword_span,
                      context |-> "variable name"])
         [] OTHER ->
              Err(p, [kind |-> "ExpectedIdentifier", span |-> variable_token.span,
                      context |-> "variable"])

parse_var_initializer(p) ==
    IF matches(p, {"Equal"})
    THEN Let(advance_position(p), LAMBDA q :
         IF matches(q, {"Semicolon"})
         THEN Err(advance_position(q), Diag("ExpectedExpression", current(q).span))
         ELSE Try(expression(q), LAMBDA init : Ok(init.p, Some(init.v))))
    ELSE IF matches(p, {"Semicolon"})
    THEN Ok(p, None)
    ELSE Err(p, [kind |-> "UnexpectedToken", span |-> current(p).span,
                 expected |-> "'=' or ';'", found |-> current(p).token_kind])

var_declaration(p) ==
    Try(parse_variable_name(advance_position(p)), LAMBDA variable_name :
    Try(parse_var_initializer(variable_name.p), LAMBDA initializer :
    Let(expect_semicolon(initializer.p), LAMBDA q :
    Ok(q, VarDecl(variable_name.v, initializer.v,
                  create_span(current(p).span, current(q).span))))))

invalid_function_name(p, function_token, message, name) ==
    Let(report(skip_to_next_paren(p),
               [kind |-> "InvalidFunctionName", span |-> function_token.span,
                message |-> message]),
        LAMBDA q : Ok(q, Ident(name, current(q).span)))

parse_function_name(p) ==
    LET function_token == current(p)
    IN CASE function_token.token_kind = "Ident" ->
              Ok(advance_position(p), Ident(function_token.lexeme, function_token.span))
         [] function_token.token_kind = "Number" ->
              IF matches(p, {"Ident"})
              THEN invalid_function_name(p, function_token,
                       "A function name cannot start with a number", "err_fun")
              ELSE invalid_function_name(p, function_token,
                       "A function name name cannot be a number", "err fun")
         [] OTHER ->
              Err(skip_to_next_paren(p),
                  [kind |-> "ExpectedIdentifier", span |-> function_token.span,
                   context |-> "function"])

fun_declaration(p) ==
    Try(parse_function_name(advance_position(p)), LAMBDA name :
    Try(parse_function_parameters(name.p), LAMBDA parameters :
    Try(block(parameters.p), LAMBDA body :
    Ok(body.p, FunDecl(name.v, parameters.v, body.v,
                       create_span(current(p).span, previous(body.p).span))))))

expression_stmt(p) ==
    Try(expression(p), LAMBDA expr :
    Let(expect_semicolon(expr.p), LAMBDA q :
    Ok(q, ExprStmt(expr.v, create_span(current(p).span, previous(q).span)))))

print_stmt(p) ==
    Try(expression(advance_position(p)), LAMBDA expr :
    Let(expect_semicolon(expr.p), LAMBDA q :
    Ok(q, PrintStmt(expr.v, create_span(current(p).span, previous(q).span)))))

\* the end of one iteration of the statement loop of block(): stalled records
\* that the iteration left the cursor where it stood
iteration_end(before, after) ==
    IF after.position > before.position THEN after ELSE [after EXCEPT !.stalled = TRUE]

\* the statement loop of block(): yields the parser and the statements collected
RECURSIVE block_loop(_, _)
block_loop(p, stmts) ==
    IF ~matches(p, {"RightBrace"}) /\ ~at_eof(p)
    THEN Let(declaration(p), LAMBDA statement_result :
         IF statement_result.p.aborted THEN Panic(statement_result.p)
         ELSE IF statement_result.ok
         THEN block_loop(iteration_end(p, statement_result.p),
                         Append(stmts, statement_result.v))
         ELSE block_loop(iteration_end(p, skip_to_next_stmt(report(statement_result.p,
                                                                   statement_result.v))),
                         stmts))
    ELSE Ok(p, stmts)

block_body(p) ==
    Try(open_delimiter(p, current(p).token_kind), LAMBDA opened :
    Try(block_loop(opened.p, <<>>), LAMBDA stmts :
    Try(close_delimiter(stmts.p, current(stmts.p).token_kind), LAMBDA closed :
    Ok(closed.p, BlockStmt(stmts.v,
                           create_span(current(p).span, previous(closed.p).span))))))

parse_condition(p) ==
    Let(expression(p), LAMBDA con :
    IF con.ok
    THEN IF con.v.node = "Grouping"
         THEN Ok(report(con.p, [kind |-> "RedundantParenthesis",
                                first |-> current(p).span,
                                second |-> previous(con.p).span]),
                 con.v)
         ELSE con
    ELSE IF con.p.aborted THEN con
    ELSE IF con.p.overflow_checks
            /\ create_span_overflows(current(p).span, previous(con.p).span)
    THEN Panic(report(con.p, con.v))
    ELSE Ok(report(con.p, con.v),
            Literal("Bool", "true", create_span(current(p).span, previous(con.p).span))))

if_stmt(p) ==
    Try(parse_condition(advance_position(p)), LAMBDA condition :
    Try(block(condition.p), LAMBDA then_branch :
    IF matches(then_branch.p, {"Else"})
    THEN Try(block(advance_position(then_branch.p)), LAMBDA else_branch :
         Ok(else_branch.p,
            IfStmt(condition.v, then_branch.v, Some(else_branch.v),
                   create_span(current(p).span, previous(else_branch.p).span))))
    ELSE Ok(then_branch.p,
            IfStmt(condition.v, then_branch.v, None,
                   create_span(current(p).span, previous(then_branch.p).span)))))

while_stmt(p) ==
    Try(parse_condition(advance_position(p)), LAMBDA condition :
    Try(block(condition.p), LAMBDA body :
    Ok(body.p, WhileStmt(condition.v, body.v,
                         create_span(current(p).span, previous(body.p).span)))))

\* `let initializer = if .. { Some(self.var_declaration()?) } else if .. else { None }`
for_initializer(p) ==
    IF matches(p, {"Var"})
    THEN Try(var_declaration(p), LAMBDA init : Ok(init.p, Some(init.v)))
    ELSE IF ~matches(p, {"Semicolon"})
    THEN Try(expression_stmt(p), LAMBDA init : Ok(init.p, Some(init.v)))
    ELSE Ok(advance_position(p), None)

for_condition(p) ==
    IF ~matches(p, {"Semicolon"})
    THEN expression(p)
    ELSE Ok(p, Literal("Bool", "true", previous(p).span))

for_semicolon(p) ==
    IF matches(p, {"Semicolon"})
    THEN advance_position(p)
    ELSE report(p, Diag("MissingSemicolon", previous(p).span))

for_increment(p) ==
    IF ~matches(p, {"LeftBrace"})
    THEN Try(expression(p), LAMBDA inc : Ok(inc.p, Some(inc.v)))
    ELSE Ok(p, None)

for_desugar(for_span, initializer, condition, increment, body, end) ==
    Block(BlockStmt(
        initializer \o
        <<WhileStmt(condition,
                    BlockStmt(body.statements \o
                              (IF increment # None
                               THEN <<ExprStmt(increment[1], create_span(for_span, end))>>
                               ELSE <<>>),
                              body.span),
                    create_span(for_span, end))>>,
        create_span(for_span, end)))

for_stmt(p) ==
    Try(for_initializer(advance_position(p)), LAMBDA initializer :
    Try(for_condition(initializer.p), LAMBDA condition :
    Try(for_increment(for_semicolon(condition.p)), LAMBDA increment :
    Try(block(increment.p), LAMBDA body :
    Ok(body.p, for_desugar(current(p).span, initializer.v, condition.v, increment.v,
                           body.v, previous(body.p).span))))))

return_value(p) ==
    IF ~matches(p, {"Semicolon"})
    THEN IF matches(p, {"EOF"})
         THEN Err(p, Diag("ExpectedExpression", current(p).span))
         ELSE Try(expression(p), LAMBDA value : Ok(value.p, Some(value.v)))
    ELSE Ok(p, None)

return_stmt(p) ==
    Try(return_value(advance_position(p)), LAMBDA value :
    Let(expect_semicolon(value.p), LAMBDA q :
    Ok(q, Return(value.v, create_span(current(p).span, previous(q).span)))))

statement(p) ==
    IF matches(p, {"Print"}) THEN print_stmt(p)
    ELSE IF matches(p, {"LeftBrace"})
    THEN Try(block(p), LAMBDA b : Ok(b.p, Block(b.v)))
    ELSE IF matches(p, {"If"}) THEN if_stmt(p)
    ELSE IF matches(p, {"While"}) THEN while_stmt(p)
    ELSE IF matches(p, {"For"}) THEN for_stmt(p)
    ELSE IF matches(p, {"Return"}) THEN return_stmt(p)
    ELSE expression_stmt(p)

declaration_body(p) ==
    IF matches(p, {"Var"}) THEN var_declaration(p)
    ELSE IF matches(p, {"Fun"}) THEN fun_declaration(p)
    ELSE statement(p)

Parse(method, p) ==
    CASE method = "expression" -> expression_body(p)
      [] method = "block" -> block_body(p)
      [] method = "declaration" -> declaration_body(p)

(***************************************************************************)
(* The programs the parser is run on: every sequence of at most MaxLen     *)
(* lexemes of Alphabet, and every prefix of the programs of Corpus.        *)
(***************************************************************************)
Alphabet == {"(", ")", "{", "}", ";", "=", "+", "-", ",", "x", "1",
             "var", "print", "if", "fun", "or"}

SeqsUpTo(S, n) == UNION {[1..k -> S] : k \in 0..n}

UnclosedGrouping == <<"(", "1", "+", "2">>
GroupedSum == <<"(", "1", "+", "2", ")", ";">>
PrintGrouping == <<"print", "(", "x", ")", ";">>
InvalidName == <<"var", "1", "x", ";", "print", "1", ";">>
ForWithParens ==
    <<"for", "(", "var", "i", "=", "0", ";", "i", "<", "3", ";",
      "i", "=", "i", "+", "1", ")", "{", "print", "i", ";", "}">>
ForWithoutParens ==
    <<"for", "var", "i", "=", "0", ";", "i", "<", "3", ";",
      "i", "=", "i", "+", "1", "{", "print", "i", ";", "}">>
NestedShadowing ==
    <<"{", "var", "x", "=", "1", ";", "{", "var", "x", "=", "x", "+", "1", ";",
      "print", "x", ";", "}", "}">>
ShadowedInBlock ==
    <<"{", "var", "x", "=", "1", ";", "{", "var", "x", ";", "}", "print", "x", ";", "}">>
AssignedThenRead == <<"{", "var", "x", ";", "x", "=", "1", ";", "print", "x", ";", "}">>
IfElse == <<"if", "x", "{", "}", "else", "{", "}">>
WhileLoop == <<"while", "x", "<", "1", "{", "x", "=", "x", "+", "1", ";", "}">>

Corpus ==
    << UnclosedGrouping, GroupedSum, PrintGrouping, InvalidName, ForWithParens,
       ForWithoutParens, NestedShadowing, IfElse, WhileLoop,
       <<"var", "x", "=", "1", ";", "print", "x", ";">>,
       <<"fun", "f", "(", "a", ",", "a", ")", "{", "return", "a", ";", "}">>,
       <<"x", "=", "f", "(", "1", ",", "y", ")", ";", "print", "2", ";">>,
       <<"if", "(", "x", ")", "{", "}", "else", "{", "}">>,
       <<"(", "x", ")", "}", ";">>,
       <<"var", "x", "=", "1", "print", "x", ";", "print", "2", ";">>,
       <<"return", "x", "}", ";">>,
       <<"{", "print", "1", "}", "print", "2", ";">>,
       <<";", "print", "1", ";">>,
       <<"1", "+", ";", "print", "2", ";">>,
       <<"a", "=", "b", "=", "c", ";">>,
       <<"(", "x", "+", "1", ")", "=", "2", ";">>,
       <<"x", "+", "1", "=", "2", ";">>,
       <<"-", "x", "=", "1", ";">>,
       <<"x", "and", ";", "print", "1", ";">> >>

Prefixes(l) == {SubSeq(l, 1, k) : k \in 0..Len(l)}

ParserInputs(n) ==
    SeqsUpTo(Alphabet, n) \cup UNION {Prefixes(Corpus[c]) : c \in DOMAIN Corpus}

\* Parser::new (parser.rs 265-273)
Parser_new(tokens, overflow_checks) ==
    [tokens |-> tokens, position |-> 0, errors |-> <<>>, delimiter_stack |-> <<>>,
     aborted |-> FALSE, overflow_checks |-> overflow_checks, stalled |-> FALSE]

Program(stmts, span) == [statements |-> stmts, span |-> span]

LexerIdle == [source |-> <<>>, tokens |-> <<>>, position |-> 0, start |-> 0]
ResolverIdle == [program |-> <<>>, errors |-> <<>>, scopes |-> <<>>]
ParserIdle == Parser_new(<<>>, FALSE)

Init ==
    /\ parser \in {Parser_new(MkTokens(l), oc) : l \in ParserInputs(MaxLen), oc \in BOOLEAN}
    /\ statements = <<>>
    /\ program = <<>>
    /\ ppc = "start"
    /\ lexer = LexerIdle /\ lpc = "idle"
    /\ resolver = ResolverIdle /\ todo = <<>> /\ rpc = "idle"

(***************************************************************************)
(* Parser::parse (parser.rs 275-300): the early return on an empty token   *)
(* sequence, one action per iteration of the statement loop, the return.   *)
(***************************************************************************)
ParseStart ==
    /\ ppc = "start"
    /\ IF matches(parser, {"EOF"})
       THEN /\ program' = Program(statements,
                                  create_span(current(parser).span, current(parser).span))
            /\ ppc' = "done"
       ELSE /\ ppc' = "loop"
            /\ UNCHANGED program
    /\ UNCHANGED <<parser, statements, lexer, lpc, resolver, todo, rpc>>

ParseStmtOk ==
    /\ ppc = "loop"
    /\ ~at_eof(parser)
    /\ LET statement_result == declaration(parser)
       IN /\ statement_result.ok
          /\ parser' = statement_result.p
          /\ statements' = Append(statements, statement_result.v)
    /\ UNCHANGED <<program, ppc, lexer, lpc, resolver, todo, rpc>>

ParseStmtErr ==
    /\ ppc = "loop"
    /\ ~at_eof(parser)
    /\ LET statement_result == declaration(parser)
       IN /\ ~statement_result.ok
          /\ ~statement_result.p.aborted
          /\ parser' = skip_to_next_stmt(report(statement_result.p, statement_result.v))
    /\ UNCHANGED <<statements, program, ppc, lexer, lpc, resolver, todo, rpc>>

ParseStmtPanic ==
    /\ ppc = "loop"
    /\ ~at_eof(parser)
    /\ LET statement_result == declaration(parser)
       IN /\ statement_result.p.aborted
          /\ parser' = statement_result.p
    /\ ppc' = "aborted"
    /\ UNCHANGED <<statements, program, lexer, lpc, resolver, todo, rpc>>

ParseReturn ==
    /\ ppc = "loop"
    /\ at_eof(parser)
    /\ program' = Program(statements,
                          create_span(parser.tokens[1].span, current(parser).span))
    /\ ppc' = "done"
    /\ UNCHANGED <<parser, statements, lexer, lpc, resolver, todo, rpc>>

Next == ParseStart \/ ParseStmtOk \/ ParseStmtErr \/ ParseStmtPanic \/ ParseReturn

Spec == Init /\ [][Next]_vars

(***************************************************************************)
(* The lexer (lib.rs 39-178).  The source is its sequence of bytes; the    *)
(* one character of the model outside ASCII takes the two bytes C3 A9.     *)
(* position and start are byte offsets, as in the code.                    *)
(***************************************************************************)
Chars == {"a", "z", "1", "\"", "/", "\n", "e'", "(", "="}

len_utf8(c) == IF c = "e'" THEN 2 ELSE 1

RECURSIVE Utf8(_)
Utf8(cs) ==
    IF cs = <<>> THEN <<>>
    ELSE (IF Head(cs) = "e'" THEN <<"C3", "A9">> ELSE <<Head(cs)>>) \o Utf8(Tail(cs))

LexerInputs(n) == {Utf8(cs) : cs \in SeqsUpTo(Chars, n)}

\* `self.source[at..].chars().next()`; <<>> is None
char_at(source, at) ==
    IF at >= Len(source) THEN None
    ELSE IF source[at + 1] = "C3" THEN Some("e'")
    ELSE Some(source[at + 1])

\* char::is_alphanumeric
is_alphanumeric(c) == c \in {"a", "z", "1", "e'"}

\* Lexer::new (lib.rs 47-49)
Lexer_new(source) == [source |-> source, tokens |-> <<>>, position |-> 0, start |-> 0]

\* Lexer::create_token (lib.rs 155-158)
create_token(l, token_kind) ==
    [ok |-> TRUE, token_kind |-> token_kind, position |-> l.start,
     literal |-> SubSeq(l.source, l.start + 1, l.position)]

\* Lexer::peek (lib.rs 160-162)
lexer_peek(l) == char_at(l.source, l.position)

\* Lexer::match_char (lib.rs 164-177): whether it returns true, and the lexer afterwards
match_char_is(l, expected) == lexer_peek(l) = Some(expected)

match_char(l, expected) ==
    IF match_char_is(l, expected)
    THEN [l EXCEPT !.position = @ + len_utf8(expected)]
    ELSE l

\* the loop of the `//` arm (lib.rs 69-73)
RECURSIVE skip_comment(_)
skip_comment(l) ==
    IF l.position < Len(l.source)
    THEN IF match_char_is(l, "\n")
         THEN match_char(l, "\n")
         ELSE skip_comment([l EXCEPT !.position = @ + len_utf8(lexer_peek(l)[1])])
    ELSE l

\* `rest[1..].find('"')` with rest = source[start..]: the byte offset in rest[1..], or -1
RECURSIVE find_quote(_, _)
find_quote(rest, pos) ==
    IF pos + 1 >= Len(rest) THEN -1
    ELSE IF rest[pos + 2] = "\"" THEN pos
    ELSE find_quote(rest, pos + 1)

\* `rest.find(|c| !c.is_alphanumeric() && c != '_').unwrap_or(rest.len())`
RECURSIVE find_ident_end(_, _)
find_ident_end(rest, pos) ==
    IF char_at(rest, pos) = None THEN Len(rest)
    ELSE IF ~is_alphanumeric(char_at(rest, pos)[1]) /\ char_at(rest, pos)[1] # "_" THEN pos
    ELSE find_ident_end(rest, pos + len_utf8(char_at(rest, pos)[1]))

LexError(message, from, to) == [ok |-> FALSE, message |-> message, from |-> from, to |-> to]

push(l, token) == [l EXCEPT !.tokens = Append(@, token)]

two_char_token(l, with_equal, alone) ==
    IF match_char_is(l, "=")
    THEN push(match_char(l, "="), create_token(match_char(l, "="), with_equal))
    ELSE push(l, create_token(l, alone))

string_token(l) ==
    LET rest == SubSeq(l.source, l.start + 1, Len(l.source))
        pos == find_quote(rest, 0)
    IN IF pos >= 0
       THEN Let([l EXCEPT !.position = l.start + (pos + 1) + 1],
                LAMBDA m : push(m, create_token(m, "String")))
       ELSE push(l, LexError("unterminated string", l.start, Len(l.source)))

ident_token(l) ==
    LET rest == SubSeq(l.source, l.start + 1, Len(l.source))
    IN Let([l EXCEPT !.position = l.start + find_ident_end(rest, 0)],
           LAMBDA m : push(m, create_token(m, "Ident")))

\* the body of the `match c` of one iteration (lib.rs 57-147); l has start and
\* position set for the character c
lex_char(l, c) ==
    CASE c = "(" -> push(l, create_token(l, "LeftParen"))
      [] c = "/" -> IF match_char_is(l, "/")
                    THEN skip_comment(match_char(l, "/"))
                    ELSE push(l, create_token(l, "Slash"))
      [] c = "=" -> two_char_token(l, "EqualEqual", "Equal")
      [] c = "\"" -> string_token(l)
      [] c = "a" -> ident_token(l)
      [] c = "\n" -> l
      [] OTHER -> push(l, LexError("unexpected character", l.start, l.start))

\* one iteration of the loop of Lexer::lex (lib.rs 51-148)
lex_iteration(l) ==
    Let(char_at(l.source, l.position)[1], LAMBDA c :
        lex_char([l EXCEPT !.start = l.position, !.position = l.position + len_utf8(c)], c))

\* the EOF token, but placed where the last token starts
EofToken_at_start(l) ==
    [ok |-> TRUE, token_kind |-> "EOF", position |-> l.start, literal |-> <<>>]

EofToken(l) == [ok |-> TRUE, token_kind |-> "EOF", position |-> Len(l.source), literal |-> <<>>]

LexInit ==
    /\ lexer \in {Lexer_new(source) : source \in LexerInputs(MaxSrcLen)}
    /\ lpc = "lex"
    /\ parser = ParserIdle /\ statements = <<>> /\ program = <<>> /\ ppc = "idle"
    /\ resolver = ResolverIdle /\ todo = <<>> /\ rpc = "idle"

LexChar ==
    /\ lpc = "lex"
    /\ lexer.position < Len(lexer.source)
    /\ lexer' = lex_iteration(lexer)
    /\ UNCHANGED <<lpc, parser, statements, program, ppc, resolver, todo, rpc>>

LexReturn ==
    /\ lpc = "lex"
    /\ ~(lexer.position < Len(lexer.source))
    /\ lexer' = push(lexer, EofToken(lexer))
    /\ lpc' = "done"
    /\ UNCHANGED <<parser, statements, program, ppc, resolver, todo, rpc>>

LexNext == LexChar \/ LexReturn

LexSpec == LexInit /\ [][LexNext]_vars

(***************************************************************************)
(* The resolver (resolver.rs).  A scope is a function from names to        *)
(* symbols.  The recursion of resolve_stmt over nested statement lists is  *)
(* laid out in todo: the statements still to resolve, with a ScopeEnd      *)
(* where the code pops the scope it pushed.                                *)
(***************************************************************************)
VariableSymbol(initialized) == [symbol |-> "Variable", initialized |-> initialized]
FunctionSymbol(params) == [symbol |-> "Function", params |-> params]

EmptyScope == <<>>

insert(scope, key, symbol) ==
    [k \in DOMAIN scope \cup {key} |-> IF k = key THEN symbol ELSE scope[k]]

\* Resolver::new (resolver.rs 25-32)
Resolver_new(ast) == [program |-> ast, errors |-> <<>>, scopes |-> <<EmptyScope>>]

\* Resolver::report (resolver.rs 34-36)
resolver_report(r, error) == [r EXCEPT !.errors = Append(@, error)]

\* Resolver::lookup_symbol (resolver.rs 38-45): None, or Some(symbol) of the innermost scope
RECURSIVE lookup_in(_, _, _)
lookup_in(scopes, depth, key) ==
    IF depth = 0 THEN None
    ELSE IF key \in DOMAIN scopes[depth] THEN Some(scopes[depth][key])
    ELSE lookup_in(scopes, depth - 1, key)

\* lookup_symbol that searches the current scope only.
lookup_symbol_current_scope(r, key) == lookup_in(<<r.scopes[Len(r.scopes)]>>, 1, key)

lookup_symbol(r, key) == lookup_in(r.scopes, Len(r.scopes), key)

\* Resolver::curr_scope (resolver.rs 47-49), and an insert into it
curr_scope(r) == r.scopes[Len(r.scopes)]

\* an insert that goes to the global scope whatever the current scope is
curr_scope_insert_global(r, key, symbol) ==
    [r EXCEPT !.scopes[1] = insert(@, key, symbol)]

curr_scope_insert(r, key, symbol) ==
    [r EXCEPT !.scopes[Len(r.scopes)] = insert(@, key, symbol)]

scopes_push(r) == [r EXCEPT !.scopes = Append(@, EmptyScope)]
\* the end of a block or function body that leaves its scope on the stack
scopes_pop_skipped(r) == r

scopes_pop(r) == [r EXCEPT !.scopes = SubSeq(@, 1, Len(@) - 1)]

ResolverError(kind, name, span) == [kind |-> kind, name |-> name, span |-> span]

\* resolve_variable_expr with the initialized flag ignored: any Variable
\* binding counts as uninitialized.
resolve_variable_expr_any_variable(r, variable_expr) ==
    LET found == lookup_symbol(r, variable_expr.name)
    IN IF found = None
       THEN resolver_report(r, ResolverError("UndefinedVariable", variable_expr.name,
                                             variable_expr.span))
       ELSE IF found[1].symbol = "Variable"
       THEN resolver_report(r, ResolverError("UninitializedVariable", variable_expr.name,
                                             variable_expr.span))
       ELSE r

\* Resolver::resolve_variable_expr (resolver.rs 172-186)
resolve_variable_expr(r, variable_expr) ==
    LET found == lookup_symbol(r, variable_expr.name)
    IN IF found = None
       THEN resolver_report(r, ResolverError("UndefinedVariable", variable_expr.name,
                                             variable_expr.span))
       ELSE IF found[1] = VariableSymbol(FALSE)
       THEN resolver_report(r, ResolverError("UninitializedVariable", variable_expr.name,
                                             variable_expr.span))
       ELSE r

\* resolve_assign_expr, but the assignment marks its target as initialized
resolve_assign_expr_initializes(r, assign_expr) ==
    LET name == assign_expr.target.name
        held == {d \in 1..Len(r.scopes) : name \in DOMAIN r.scopes[d]}
    IN IF held = {}
       THEN resolver_report(r, ResolverError("UndefinedVariable", name,
                                             assign_expr.target.span))
       ELSE LET d == CHOOSE d \in held : \A e \in held : e <= d
            IN IF r.scopes[d][name].symbol = "Variable"
               THEN [r EXCEPT !.scopes[d][name] = VariableSymbol(TRUE)]
               ELSE r

\* Resolver::resolve_assign_expr (resolver.rs 188-196)
resolve_assign_expr(r, assign_expr) ==
    IF lookup_symbol(r, assign_expr.target.name) = None
    THEN resolver_report(r, ResolverError("UndefinedVariable", assign_expr.target.name,
                                          assign_expr.target.span))
    ELSE r

\* Resolver::resolve_call_expr (resolver.rs 203)
resolve_call_expr(r, call_expr) == r

\* Resolver::resolve_expr (resolver.rs 146-170, 198-201)
RECURSIVE resolve_expr(_, _)
resolve_expr(r, expr) ==
    CASE expr.node = "Literal" -> r
      [] expr.node = "Unary" -> resolve_expr(r, expr.expr)
      [] expr.node = "Binary" -> resolve_expr(resolve_expr(r, expr.left), expr.right)
      [] expr.node = "Grouping" -> resolve_expr(r, expr.expr)
      [] expr.node = "Variable" -> resolve_variable_expr(r, expr)
      [] expr.node = "Assign" -> resolve_assign_expr(r, expr)
      [] expr.node = "Logical" -> resolve_expr(resolve_expr(r, expr.left), expr.right)
      [] expr.node = "Call" -> resolve_call_expr(r, expr)

\* resolve_var_decl, but the name is bound before its initializer is resolved
resolve_var_decl_bind_first(r, var_decl) ==
    IF var_decl.initializer # None
    THEN resolve_expr(curr_scope_insert(r, var_decl.ident.name, VariableSymbol(TRUE)),
                      var_decl.initializer[1])
    ELSE curr_scope_insert(r, var_decl.ident.name, VariableSymbol(FALSE))

\* Resolver::resolve_var_decl (resolver.rs 79-89)
resolve_var_decl(r, var_decl) ==
    curr_scope_insert(
        IF var_decl.initializer # None THEN resolve_expr(r, var_decl.initializer[1]) ELSE r,
        var_decl.ident.name,
        VariableSymbol(var_decl.initializer # None))

\* the loop over the parameters in resolve_fun_decl (resolver.rs 100-111)
\* the loop over the parameters without the test for a duplicate
RECURSIVE resolve_params_rebind(_, _, _)
resolve_params_rebind(r, fun_decl, i) ==
    IF i > Len(fun_decl.params) THEN r
    ELSE resolve_params_rebind(
             curr_scope_insert(r, fun_decl.params[i].name, VariableSymbol(TRUE)),
             fun_decl, i + 1)

RECURSIVE resolve_params(_, _, _)
resolve_params(r, fun_decl, i) ==
    IF i > Len(fun_decl.params) THEN r
    ELSE IF fun_decl.params[i].name \in DOMAIN curr_scope(r)
    THEN resolve_params(
             resolver_report(r, [kind |-> "DuplicateParameter",
                                 span |-> fun_decl.params[i].span,
                                 function_name |-> fun_decl.ident.name]),
             fun_decl, i + 1)
    ELSE resolve_params(curr_scope_insert(r, fun_decl.params[i].name, VariableSymbol(TRUE)),
                        fun_decl, i + 1)

\* Resolver::resolve_fun_decl up to the loop over the body (resolver.rs 91-111)
resolve_fun_decl(r, fun_decl) ==
    resolve_params(
        scopes_push(curr_scope_insert(r, fun_decl.ident.name,
                                      FunctionSymbol(fun_decl.params))),
        fun_decl, 1)

ScopeEnd == [node |-> "ScopeEnd"]

\* the statement loop of resolve_block and of resolve_fun_decl, with the pop after it
block_todo(b) == b.statements \o <<ScopeEnd>>

\* Resolver::resolve_stmt (resolver.rs 58-69) with the method it dispatches to, up
\* to that method's statement loops: the resolver afterwards
resolve_stmt(r, stmt) ==
    CASE stmt.node \in {"ExprStmt", "PrintStmt"} -> resolve_expr(r, stmt.expr)
      [] stmt.node = "VarDecl" -> resolve_var_decl(r, stmt)
      [] stmt.node = "FunDecl" -> resolve_fun_decl(r, stmt)
      [] stmt.node = "Block" -> scopes_push(r)
      [] stmt.node \in {"If", "While"} -> resolve_expr(r, stmt.condition)
      [] stmt.node = "Return" ->
           IF stmt.value # None THEN resolve_expr(r, stmt.value[1]) ELSE r

\* the statements resolve_stmt(stmt) goes on to resolve
nested_todo(stmt) ==
    CASE stmt.node = "FunDecl" -> block_todo(stmt.body)
      [] stmt.node = "Block" -> block_todo(stmt)
      [] stmt.node = "If" ->
           <<Block(stmt.then_branch)>> \o
           (IF stmt.else_branch # None THEN <<Block(stmt.else_branch[1])>> ELSE <<>>)
      [] stmt.node = "While" -> <<Block(stmt.body)>>
      [] OTHER -> <<>>

(***************************************************************************)
(* The programs the resolver is run on: at most MaxStmts statements, each  *)
(* one of ResolverShapes as the parser builds it.                          *)
(***************************************************************************)
MaxStmts == 2

ResolverShapes ==
    << <<"var", "x", ";">>,
       <<"var", "x", "=", "1", ";">>,
       <<"var", "x", "=", "x", "+", "1", ";">>,
       <<"print", "x", ";">>,
       <<"print", "y", ";">>,
       <<"print", "f", ";">>,
       <<"x", "=", "1", ";">>,
       <<"x", "=", "y", ";">>,
       <<"f", "(", "y", ")", ";">>,
       <<"fun", "f", "(", "a", ",", "a", ")", "{", "return", "a", ";", "}">>,
       <<"{", "var", "x", "=", "1", ";", "}">>,
       <<"{", "var", "x", ";", "print", "x", ";", "}">>,
       <<"{", "var", "x", "=", "1", ";", "{", "var", "x", "=", "x", "+", "1", ";",
         "print", "x", ";", "}", "}">>,
       <<"if", "x", "{", "var", "y", ";", "}", "else", "{", "print", "y", ";", "}">>,
       <<"while", "x", "{", "x", "=", "1", ";", "}">>,
       <<"fun", "f", "(", "a", ",", "x", ",", "a", ",", "a", ")", "{", "print", "x", ";", "}">>,
       ShadowedInBlock,
       AssignedThenRead >>

\* the statement of shape sh standing as the i-th statement of a program
StmtAt ==
    [sh \in DOMAIN ResolverShapes, i \in 1..MaxStmts |->
        declaration(Parser_new(LayOut(ResolverShapes[sh], 100 * (i - 1)), FALSE)).v]

ResolverInputs(n) ==
    UNION {{[i \in 1..k |-> StmtAt[shapes[i], i]] : shapes \in [1..k -> DOMAIN ResolverShapes]}
           : k \in 0..n}

ResolveInit ==
    /\ program \in {Program(stmts, Sp(0, 100 * Len(stmts))) : stmts \in ResolverInputs(MaxStmts)}
    /\ resolver = Resolver_new(program)
    /\ todo = program.statements
    /\ rpc = "resolve"
    /\ parser = ParserIdle /\ statements = <<>> /\ ppc = "idle"
    /\ lexer = LexerIdle /\ lpc = "idle"

\* one call of resolve_stmt from a statement loop
ResolveStmt ==
    /\ rpc = "resolve"
    /\ todo # <<>>
    /\ Head(todo).node # "ScopeEnd"
    /\ resolver' = resolve_stmt(resolver, Head(todo))
    /\ todo' = nested_todo(Head(todo)) \o Tail(todo)
    /\ UNCHANGED <<rpc, program, parser, statements, ppc, lexer, lpc>>

\* `self.scopes.pop()` after the statement loop of a block or a function body
ResolveScopeEnd ==
    /\ rpc = "resolve"
    /\ todo # <<>>
    /\ Head(todo).node = "ScopeEnd"
    /\ resolver' = scopes_pop(resolver)
    /\ todo' = Tail(todo)
    /\ UNCHANGED <<rpc, program, parser, statements, ppc, lexer, lpc>>

\* `self.errors`: Resolver::resolve returns (resolver.rs 55)
ResolveReturn ==
    /\ rpc = "resolve"
    /\ todo = <<>>
    /\ rpc' = "done"
    /\ UNCHANGED <<resolver, todo, program, parser, statements, ppc, lexer, lpc>>

ResolveNext == ResolveStmt \/ ResolveScopeEnd \/ ResolveReturn

ResolveSpec == ResolveInit /\ [][ResolveNext]_vars

(***************************************************************************)
(* Properties of the parser.                                               *)
(***************************************************************************)
ParseIteration == ppc = "loop" /\ ~at_eof(parser)

Kinds(errors) == [i \in DOMAIN errors |-> errors[i].kind]

\* C1: for every token sequence that ends with one EOF token, Parser::parse
\* returns a Program and never aborts on a cursor access outside the tokens.
C1_ParseNeverAborts == ppc # "aborted"

\* C2: on every token sequence, an iteration of the top-level loop that does
\* not abort moves the cursor forward, or it starts on a `}`, pops the
\* delimiter that `}` does not match and leaves the cursor on the `}`; an
\* iteration of a block's statement loop always moves the cursor forward.  The
\* pair (tokens left, depth of the delimiter stack) so decreases with every
\* iteration, and Parser::parse stops.
C2_IterationProgress ==
    ParseIteration =>
        \/ parser'.aborted
        \/ parser'.position > parser.position
        \/ /\ parser'.position = parser.position
           /\ current_is(parser, "RightBrace")
           /\ Len(parser'.delimiter_stack) < Len(parser.delimiter_stack)

IsOpening(token) == token.token_kind \in {"LeftParen", "LeftBrace"}
IsClosing(token) == token.token_kind \in {"RightParen", "RightBrace"}

Indices(seq, Test(_)) == {i \in DOMAIN seq : Test(seq[i])}

\* C4: when the tokens hold one opening delimiter and no closing one, so that
\* parsing reaches EOF with it unclosed, the parser reports exactly one
\* UnclosedDelimiter diagnostic, whose span is the span of that delimiter.
C4_UnclosedDelimiterAtEOF ==
    (/\ ppc = "done"
     /\ Cardinality(Indices(parser.tokens, IsOpening)) = 1
     /\ Indices(parser.tokens, IsClosing) = {})
    => \E e \in DOMAIN parser.errors :
          /\ parser.errors[e].kind = "UnclosedDelimiter"
          /\ \E i \in Indices(parser.tokens, IsOpening) :
                parser.errors[e].span = parser.tokens[i].span
          /\ \A f \in DOMAIN parser.errors :
                parser.errors[f].kind = "UnclosedDelimiter" => f = e

UnexpectedClosing(token) ==
    [kind |-> "UnexpectedClosingDelimiter", span |-> token.span,
     delimiter |-> token.token_kind]

\* C5: when an iteration of the top-level loop starts on a closing `)` or `}`,
\* or on a `print` followed by one, while the delimiter stack is empty, the
\* parser reports UnexpectedClosingDelimiter at that closing token's span and
\* nothing else, consumes the token, and leaves the delimiter stack empty.
C5_AtStatementStart ==
    (/\ ParseIteration
     /\ parser.delimiter_stack = <<>>
     /\ IsClosing(current(parser)))
    => /\ parser'.errors = Append(parser.errors, UnexpectedClosing(current(parser)))
       /\ parser'.position > parser.position
       /\ parser'.delimiter_stack = <<>>

C5_AfterPrint ==
    (/\ ParseIteration
     /\ parser.delimiter_stack = <<>>
     /\ current_is(parser, "Print")
     /\ IsClosing(peek(parser)))
    => /\ parser'.errors = Append(parser.errors, UnexpectedClosing(peek(parser)))
       /\ parser'.position > parser.position + 1
       /\ parser'.delimiter_stack = <<>>

StatementEnd(p) ==
    CHOOSE k \in (p.position + 2)..Len(p.tokens) :
        /\ p.tokens[k].token_kind \in {"Semicolon", "RightBrace", "EOF"}
        /\ \A j \in (p.position + 2)..(k - 1) :
              p.tokens[j].token_kind \notin {"Semicolon", "RightBrace", "EOF"}

\* C6: when an iteration of the top-level loop starts on a `var` followed by a
\* number, the parser reports exactly one diagnostic, InvalidVariableName at
\* the number's span, adds no statement, and resumes after the next `;` (on
\* the `}` or EOF when one comes first).
C6_Iteration ==
    (ParseIteration /\ current_is(parser, "Var") /\ peek(parser).token_kind = "Number")
    => /\ Len(parser'.errors) = Len(parser.errors) + 1
       /\ SubSeq(parser'.errors, 1, Len(parser.errors)) = parser.errors
       /\ parser'.errors[Len(parser'.errors)].kind = "InvalidVariableName"
       /\ parser'.errors[Len(parser'.errors)].span = peek(parser).span
       /\ statements' = statements
       /\ parser'.position =
             IF parser.tokens[StatementEnd(parser)].token_kind = "Semicolon"
             THEN StatementEnd(parser)
             ELSE StatementEnd(parser) - 1

\* C6, the example: `var 1x; print 1;` yields one InvalidVariableName and the
\* Program holds `print 1;` as its one statement.
C6_Example ==
    (ppc = "done" /\ parser.tokens = MkTokens(InvalidName))
    => /\ Kinds(parser.errors) = <<"InvalidVariableName">>
       /\ program.statements =
             <<PrintStmt(Literal("Number", "1", parser.tokens[6].span),
                         create_span(parser.tokens[5].span, parser.tokens[7].span))>>

C6_InvalidVariableName == [][C6_Iteration]_vars /\ []C6_Example

C6_Witness ==
    /\ ppc = "done"
    /\ parser.tokens = MkTokens(InvalidName)
    /\ Len(parser.errors) = 1
    /\ Len(program.statements) = 1

Nodes(stmts) == [i \in DOMAIN stmts |-> stmts[i].node]

\* C7: `for (var i = 0; i < 3; i = i + 1) { print i; }` parses without
\* diagnostics to one Block of the VarDecl and a While whose body is the
\* print statement followed by ExprStmt(i = i + 1).
C7_ParenthesisedFor ==
    (ppc = "done" /\ parser.tokens = MkTokens(ForWithParens))
    => /\ parser.errors = <<>>
       /\ Nodes(program.statements) = <<"Block">>
       /\ Nodes(program.statements[1].statements) = <<"VarDecl", "While">>
       /\ program.statements[1].statements[2].condition.node = "Binary"
       /\ Nodes(program.statements[1].statements[2].body.statements)
             = <<"PrintStmt", "ExprStmt">>

SpanEnd(span) == span.offset + span.len

\* C8: a VarDecl's span runs from its `var` to its `;`, an Assign's from its
\* target to the end of its value, a Call's from its callee to its `)`.
C8_NodeSpans ==
    ppc = "done" =>
        \A s \in DOMAIN program.statements :
            LET stmt == program.statements[s]
            IN /\ stmt.node = "VarDecl" =>
                     \E i, j \in DOMAIN parser.tokens :
                        /\ parser.tokens[i].token_kind = "Var"
                        /\ parser.tokens[j].token_kind = "Semicolon"
                        /\ stmt.span = create_span(parser.tokens[i].span,
                                                   parser.tokens[j].span)
               /\ (stmt.node = "ExprStmt" /\ stmt.expr.node = "Assign") =>
                     stmt.expr.span = create_span(stmt.expr.target.span,
                                                  stmt.expr.value.span)
               /\ (stmt.node = "ExprStmt" /\ stmt.expr.node = "Call") =>
                     /\ stmt.expr.span.offset = stmt.expr.callee.span.offset
                     /\ \E j \in DOMAIN parser.tokens :
                           /\ parser.tokens[j].token_kind = "RightParen"
                           /\ SpanEnd(stmt.expr.span) = SpanEnd(parser.tokens[j].span)

WellFormed == {GroupedSum, PrintGrouping, ForWithoutParens, NestedShadowing, IfElse, WhileLoop}

DelimiterDiagnostics ==
    {"UnclosedDelimiter", "UnmatchedDelimiter", "UnexpectedClosingDelimiter"}

\* C9: after Parser::parse finishes on a well-formed program, `print (x);`
\* among them, the delimiter stack is empty and no delimiter diagnostic has
\* been reported.
C9_StackEmptyAfterWellFormed ==
    (ppc = "done" /\ parser.tokens \in {MkTokens(l) : l \in WellFormed})
    => /\ parser.delimiter_stack = <<>>
       /\ \A e \in DOMAIN parser.errors : parser.errors[e].kind \notin DelimiterDiagnostics

(***************************************************************************)
(* Properties of the lexer.                                                *)
(***************************************************************************)
\* C3: the sequence one call of Lexer::lex returns ends with an EOF token
\* whose position is the length of the source and whose text is empty, and
\* none of its other elements is an EOF token.
C3_EndsWithOneEOF ==
    lpc = "done" =>
        /\ lexer.tokens # <<>>
        /\ lexer.tokens[Len(lexer.tokens)] =
              [ok |-> TRUE, token_kind |-> "EOF", position |-> Len(lexer.source),
               literal |-> <<>>]
        /\ \A i \in 1..(Len(lexer.tokens) - 1) :
              lexer.tokens[i].ok => lexer.tokens[i].token_kind # "EOF"

\* the tokens of a five-byte source: an identifier that holds the two-byte
\* character, an unterminated string, a `(` and the EOF token
C3_Witness ==
    /\ lpc = "done"
    /\ lexer.source = Utf8(<<"a", "e'", "\"", "(">>)
    /\ Len(lexer.tokens) = 4
    /\ lexer.tokens[4].position = 5

(***************************************************************************)
(* Properties of the resolver.                                             *)
(***************************************************************************)
\* `var x = x + <literal>;`
ReadsItself(stmt) ==
    /\ stmt.node = "VarDecl"
    /\ stmt.initializer # None
    /\ stmt.initializer[1].node = "Binary"
    /\ stmt.initializer[1].left.node = "Variable"
    /\ stmt.initializer[1].left.name = stmt.ident.name
    /\ stmt.initializer[1].right.node = "Literal"

\* C10: when resolve reaches `var x = x + 1;`, the read of x is resolved
\* against the scopes as they stand before the declaration (undefined when no
\* scope binds x, clean when the innermost binding of x is initialized), and
\* only then is x bound, initialized, in the current scope.
C10_Declaration ==
    (rpc = "resolve" /\ todo # <<>> /\ ReadsItself(Head(todo)))
    => LET name == Head(todo).ident.name
           read == Head(todo).initializer[1].left
           seen == lookup_symbol(resolver, name)
       IN /\ seen = None =>
                resolver'.errors =
                    Append(resolver.errors,
                           ResolverError("UndefinedVariable", name, read.span))
          /\ seen = Some(VariableSymbol(FALSE)) =>
                resolver'.errors =
                    Append(resolver.errors,
                           ResolverError("UninitializedVariable", name, read.span))
          /\ (seen # None /\ seen # Some(VariableSymbol(FALSE))) =>
                resolver'.errors = resolver.errors
          /\ Len(resolver'.scopes) = Len(resolver.scopes)
          /\ curr_scope(resolver')[name] = VariableSymbol(TRUE)
          /\ \A d \in 1..(Len(resolver.scopes) - 1) :
                resolver'.scopes[d] = resolver.scopes[d]

NestedShadowingStmt == declaration(Parser_new(MkTokens(NestedShadowing), FALSE)).v

\* C10, the example: `{ var x = 1; { var x = x + 1; print x; } }` yields no
\* diagnostic.
C10_Example ==
    (rpc = "done" /\ program.statements = <<NestedShadowingStmt>>)
    => resolver.errors = <<>>

C10_InitializerBeforeBinding == [][C10_Declaration]_vars /\ []C10_Example

C10_Witness ==
    /\ rpc = "done"
    /\ program.statements = <<NestedShadowingStmt>>
    /\ resolver.errors = <<>>
    /\ resolver.scopes = <<EmptyScope>>

(***************************************************************************)
(* Variable reads.  A step of the resolver on a statement resolves the     *)
(* expression the statement holds directly; the reads of an expression    *)
(* built from literals, variables, unary, binary and logical operators    *)
(* and groupings are its Variable nodes, left to right.                    *)
(***************************************************************************)
ResolvedExpr(stmt) ==
    CASE stmt.node \in {"ExprStmt", "PrintStmt"} -> <<stmt.expr>>
      [] stmt.node \in {"If", "While"} -> <<stmt.condition>>
      [] stmt.node = "VarDecl" -> stmt.initializer
      [] stmt.node = "Return" -> stmt.value
      [] OTHER -> <<>>

RECURSIVE Reads(_)
Reads(expr) ==
    CASE expr.node = "Variable" -> <<expr>>
      [] expr.node \in {"Unary", "Grouping"} -> Reads(expr.expr)
      [] expr.node \in {"Binary", "Logical"} -> Reads(expr.left) \o Reads(expr.right)
      [] OTHER -> <<>>

RECURSIVE ReadsOnly(_)
ReadsOnly(expr) ==
    CASE expr.node \in {"Variable", "Literal"} -> TRUE
      [] expr.node \in {"Unary", "Grouping"} -> ReadsOnly(expr.expr)
      [] expr.node \in {"Binary", "Logical"} -> ReadsOnly(expr.left) /\ ReadsOnly(expr.right)
      [] OTHER -> FALSE

\* The scopes that bind a name, and the binding of the innermost of them.
Binders(scopes, name) == {d \in 1..Len(scopes) : name \in DOMAIN scopes[d]}

InnermostBinding(scopes, name) ==
    LET d == CHOOSE d \in Binders(scopes, name) : \A e \in Binders(scopes, name) : e <= d
    IN scopes[d][name]

ReadStep ==
    /\ rpc = "resolve"
    /\ todo # <<>>
    /\ ResolvedExpr(Head(todo)) # <<>>
    /\ ReadsOnly(ResolvedExpr(Head(todo))[1])

StepReads == Reads(ResolvedExpr(Head(todo))[1])

Reported(kind) ==
    SelectSeq(SubSeq(resolver'.errors, Len(resolver.errors) + 1, Len(resolver'.errors)),
              LAMBDA e : e.kind = kind)

DiagnosticsFor(kind, reads) ==
    [i \in 1..Len(reads) |->
        [kind |-> kind, name |-> reads[i].name, span |-> reads[i].span]]

IsUninitializedRead(read) ==
    /\ Binders(resolver.scopes, read.name) # {}
    /\ InnermostBinding(resolver.scopes, read.name) = [symbol |-> "Variable", initialized |-> FALSE]

\* C11: a step that resolves an expression of reads reports one
\* UninitializedVariable, at the read's span, for each read whose innermost
\* visible binding is a Variable declared without initializer, and none for
\* any other read; the prior errors are kept.
C11_Reads ==
    ReadStep =>
        /\ Reported("UninitializedVariable") =
               DiagnosticsFor("UninitializedVariable",
                              SelectSeq(StepReads, IsUninitializedRead))
        /\ SubSeq(resolver'.errors, 1, Len(resolver.errors)) = resolver.errors

IsVarDecl(stmt, name, initialized) ==
    /\ stmt.node = "VarDecl"
    /\ stmt.ident.name = name
    /\ (stmt.initializer # None) = initialized
    /\ initialized => stmt.initializer[1].node = "Literal"

IsPrintOf(stmt, name) ==
    /\ stmt.node = "PrintStmt"
    /\ stmt.expr.node = "Variable"
    /\ stmt.expr.name = name

\* C11, the examples: `var x; print x;` reports UninitializedVariable at the
\* read, `var x = 1; print x;` reports nothing.
C11_Examples ==
    rpc = "done" /\ Len(program.statements) = 2 /\ IsPrintOf(program.statements[2], "x")
    => /\ IsVarDecl(program.statements[1], "x", FALSE) =>
              resolver.errors = <<[kind |-> "UninitializedVariable", name |-> "x",
                                   span |-> program.statements[2].expr.span]>>
       /\ IsVarDecl(program.statements[1], "x", TRUE) => resolver.errors = <<>>

C12_Reads ==
    ReadStep =>
        Reported("UndefinedVariable") =
            DiagnosticsFor("UndefinedVariable",
                           SelectSeq(StepReads,
                                     LAMBDA read : Binders(resolver.scopes, read.name) = {}))

C12_Example ==
    (rpc = "done" /\ Len(program.statements) = 1 /\ IsPrintOf(program.statements[1], "y"))
    => resolver.errors = <<[kind |-> "UndefinedVariable", name |-> "y",
                            span |-> program.statements[1].expr.span]>>

IsDuplicate(params, i) == \E j \in 1..(i - 1) : params[j].name = params[i].name

DuplicateIndices(params) ==
    SelectSeq([i \in 1..Len(params) |-> i], LAMBDA i : IsDuplicate(params, i))

\* C13: the step that resolves a function declaration reports, in order, one
\* DuplicateParameter for each parameter whose name occurs earlier in the
\* list, with the function's name and that parameter's span, and nothing
\* else; the scope pushed for the function binds each parameter name once,
\* as an initialized Variable.
C13_Declaration ==
    (rpc = "resolve" /\ todo # <<>> /\ Head(todo).node = "FunDecl")
    => LET fun_decl == Head(todo)
           params == fun_decl.params
           dups == DuplicateIndices(params)
       IN /\ resolver'.errors =
                 resolver.errors \o
                 [k \in 1..Len(dups) |->
                     [kind |-> "DuplicateParameter",
                      span |-> params[dups[k]].span,
                      function_name |-> fun_decl.ident.name]]
          /\ Len(resolver'.scopes) = Len(resolver.scopes) + 1
          /\ resolver'.scopes[Len(resolver'.scopes)] =
                 [name \in {params[i].name : i \in 1..Len(params)} |->
                     [symbol |-> "Variable", initialized |-> TRUE]]

IsFunOfParams(stmt, names) ==
    /\ stmt.node = "FunDecl"
    /\ [i \in 1..Len(stmt.params) |-> stmt.params[i].name] = names

\* C13, the example: `fun f(a, a) { return a; }` yields exactly one
\* DuplicateParameter, at the second a.
C13_Example ==
    (rpc = "done" /\ Len(program.statements) = 1
        /\ IsFunOfParams(program.statements[1], <<"a", "a">>))
    => resolver.errors = <<[kind |-> "DuplicateParameter",
                            span |-> program.statements[1].params[2].span,
                            function_name |-> "f"]>>

C13_DuplicateParameter == [][C13_Declaration]_vars /\ []C13_Example

\* the parameters of `fun f(a, a)` have been resolved and its body is next
C13_Witness ==
    /\ rpc = "resolve"
    /\ Len(program.statements) = 1
    /\ IsFunOfParams(program.statements[1], <<"a", "a">>)
    /\ Len(resolver.scopes) = 2
    /\ resolver.scopes[2] = [name \in {"a"} |-> [symbol |-> "Variable", initialized |-> TRUE]]
    /\ Len(resolver.errors) = 1
    /\ resolver.errors[1].kind = "DuplicateParameter"

\* the scopes of blocks and function bodies whose statements are still being resolved
OpenScopes == Len(SelectSeq(todo, LAMBDA stmt : stmt.node = "ScopeEnd"))

C14_Depth ==
    rpc \in {"resolve", "done"}
    => /\ Len(resolver.scopes) >= 1
       /\ Len(resolver.scopes) = 1 + OpenScopes
       /\ rpc = "done" => Len(resolver.scopes) = 1

C14_Step ==
    (rpc = "resolve" /\ todo # <<>>)
    => /\ Head(todo).node \in {"Block", "FunDecl"} =>
              /\ Len(resolver'.scopes) = Len(resolver.scopes) + 1
              /\ SubSeq(resolver'.scopes, 1, Len(resolver.scopes) - 1)
                     = SubSeq(resolver.scopes, 1, Len(resolver.scopes) - 1)
       /\ Head(todo).node = "ScopeEnd" =>
              resolver'.scopes = SubSeq(resolver.scopes, 1, Len(resolver.scopes) - 1)
       /\ Head(todo).node \notin {"Block", "FunDecl", "ScopeEnd"} =>
              Len(resolver'.scopes) = Len(resolver.scopes)

\* C14: the scope stack always holds at least the global scope; a block or a
\* function declaration pushes one scope, which is popped when its statements
\* have been resolved, so the stack holds one scope for every construct still
\* open above the global one, and exactly the global scope when resolve
\* returns.
C14_ScopeStackBalanced == []C14_Depth /\ [][C14_Step]_vars

\* resolve has returned from a program of a function declaration and a block
C14_Witness ==
    /\ rpc = "done"
    /\ Len(program.statements) = 2
    /\ program.statements[1].node = "FunDecl"
    /\ program.statements[2].node = "Block"
    /\ Len(program.statements[2].statements) = 2
    /\ Len(resolver.scopes) = 1
    /\ DOMAIN resolver.scopes[1] = {"f"}

\* the names the statements of a list declare in the scope of that list
Declared(stmts) ==
    {stmts[i].ident.name : i \in {j \in 1..Len(stmts) : stmts[j].node \in {"VarDecl", "FunDecl"}}}

\* A step of resolve leaves the scopes under the current one as they are,
\* and the end of a block or function body drops the current scope whole.
C15_Step ==
    (rpc = "resolve" /\ todo # <<>>)
    => /\ SubSeq(resolver'.scopes, 1, Len(resolver.scopes) - 1)
              = SubSeq(resolver.scopes, 1, Len(resolver.scopes) - 1)
       /\ Head(todo).node = "ScopeEnd" =>
              \A name \in IdentNames :
                 /\ Binders(resolver'.scopes, name)
                        = Binders(resolver.scopes, name) \ {Len(resolver.scopes)}
                 /\ Binders(resolver'.scopes, name) # {} =>
                        InnermostBinding(resolver'.scopes, name)
                            = resolver.scopes[CHOOSE d \in Binders(resolver'.scopes, name) :
                                  \A e \in Binders(resolver'.scopes, name) : e <= d][name]

\* When resolve returns, the global scope binds the names declared at top
\* level and no name declared in a block or a function.
C15_GlobalScope ==
    rpc = "done" => DOMAIN resolver.scopes[1] = Declared(program.statements)

ShadowedInBlockStmt == declaration(Parser_new(MkTokens(ShadowedInBlock), FALSE)).v

\* C15, the examples: `{ var x = 1; } print x;` reports UndefinedVariable at
\* the read; in `{ var x = 1; { var x; } print x; }` the read after the inner
\* block sees the initialized outer x and nothing is reported.
C15_Examples ==
    rpc = "done" =>
       /\ ( /\ Len(program.statements) = 2
            /\ program.statements[1].node = "Block"
            /\ Len(program.statements[1].statements) = 1
            /\ IsVarDecl(program.statements[1].statements[1], "x", TRUE)
            /\ IsPrintOf(program.statements[2], "x") )
          => resolver.errors = <<[kind |-> "UndefinedVariable", name |-> "x",
                                  span |-> program.statements[2].expr.span]>>
       /\ program.statements = <<ShadowedInBlockStmt>> => resolver.errors = <<>>

\* C15: a binding made inside a block or a function body is visible only
\* while that scope is on the stack, and an enclosing binding shadowed inside
\* the block is the one seen again after the pop.
C15_BlockScoped == [][C15_Step]_vars /\ []C15_GlobalScope /\ []C15_Examples

\* the read of x after the inner block of ShadowedInBlock has been resolved:
\* the inner scope is gone and the outer, initialized x is the binding seen
C15_Witness ==
    /\ rpc = "resolve"
    /\ program.statements = <<ShadowedInBlockStmt>>
    /\ Len(todo) = 1
    /\ Len(resolver.scopes) = 2
    /\ resolver.scopes[2] = [name \in {"x"} |-> [symbol |-> "Variable", initialized |-> TRUE]]
    /\ resolver.errors = <<>>

(***************************************************************************)
(* Identifiers.  Of Chars, "a" and "z" are ASCII letters and "1" is an     *)
(* ASCII digit; "e'" is a letter outside ASCII, of two bytes.              *)
(***************************************************************************)
AsciiLetters == {"a", "z"}
AsciiIdentChars == {"a", "z", "1"}

\* the end of the run of ASCII letters and digits that holds byte offset at
RECURSIVE RunEnd(_, _)
RunEnd(source, at) ==
    IF at < Len(source) /\ source[at + 1] \in AsciiIdentChars
    THEN RunEnd(source, at + 1)
    ELSE at

\* the offsets where a maximal run [A-Za-z_][A-Za-z0-9_]* starts
RunStarts(source) ==
    {at \in 0..(Len(source) - 1) :
        /\ source[at + 1] \in AsciiLetters
        /\ at > 0 => source[at] \notin AsciiIdentChars}

IdentTokens(tokens) ==
    {tokens[i] : i \in {j \in 1..Len(tokens) : tokens[j].ok /\ tokens[j].token_kind = "Ident"}}

\* C16: for a source without strings and comments, the Ident tokens of
\* Lexer::lex are exactly the maximal runs [A-Za-z_][A-Za-z0-9_]* of the
\* source, each with its offset and its text.
C16_IdentifiersAreMaximalAsciiRuns ==
    (lpc = "done" /\ \A i \in 1..Len(lexer.source) : lexer.source[i] \notin {"\"", "/"})
    => IdentTokens(lexer.tokens) =
           {[ok |-> TRUE, token_kind |-> "Ident", position |-> at,
             literal |-> SubSeq(lexer.source, at + 1, RunEnd(lexer.source, at))]
              : at \in RunStarts(lexer.source)}

(***************************************************************************)
(* More properties of the parser.                                          *)
(***************************************************************************)
\* the token n places after the cursor
TokenAhead(p, n) == p.tokens[p.position + n + 1]

NewErrors == SubSeq(parser'.errors, Len(parser.errors) + 1, Len(parser'.errors))

\* token kinds that end a condition made of one variable or number and do
\* not open a block
NotABlock == {"Semicolon", "Comma", "RightParen", "RightBrace", "Var", "Print", "If",
              "Fun", "EOF"}

C17_Iteration ==
    (/\ ParseIteration
     /\ current_is(parser, "If")
     /\ parser.position + 3 <= Len(parser.tokens)
     /\ TokenAhead(parser, 1).token_kind \in {"Ident", "Number"}
     /\ TokenAhead(parser, 2).token_kind \in NotABlock)
    => \E e \in DOMAIN NewErrors :
          /\ NewErrors[e].kind = "MissingBlock"
          /\ NewErrors[e].span = TokenAhead(parser, 2).span

\* C17: when an iteration of the top-level loop starts on `if`, a condition
\* of one variable or number, and a token that is not `{`, the parser
\* reports MissingBlock with the span of that token.
C17_MissingBlock == [][C17_Iteration]_vars

\* token kinds that neither continue an expression nor are a `;` (an
\* identifier is left out: after a number it makes an invalid variable name)
AfterExpression == {"RightBrace", "RightParen", "LeftBrace", "Comma", "Var", "Print",
                    "If", "Fun", "Return", "Number", "EOF"}

\* the number of tokens of the statement the cursor stands on, when it is an
\* expression, print or return statement of one variable or number, or a var
\* declaration initialized with one; 0 otherwise
StatementTokens(p) ==
    CASE current(p).token_kind \in {"Ident", "Number"} -> 1
      [] /\ current(p).token_kind \in {"Print", "Return"}
         /\ TokenAhead(p, 1).token_kind \in {"Ident", "Number"} -> 2
      [] /\ current(p).token_kind = "Var"
         /\ TokenAhead(p, 1).token_kind = "Ident"
         /\ TokenAhead(p, 2).token_kind = "Equal"
         /\ TokenAhead(p, 3).token_kind \in {"Ident", "Number"} -> 4
      [] OTHER -> 0

\* the cursor after skip_to_next_stmt from the token n places ahead: past the
\* first `;`, or on the `}` or EOF that comes before any `;`
ResumesAt(p, n) ==
    LET k == CHOOSE k \in (p.position + n + 1)..Len(p.tokens) :
                 /\ p.tokens[k].token_kind \in {"Semicolon", "RightBrace", "EOF"}
                 /\ \A j \in (p.position + n + 1)..(k - 1) :
                       p.tokens[j].token_kind \notin {"Semicolon", "RightBrace", "EOF"}
    IN IF p.tokens[k].token_kind = "Semicolon" THEN k ELSE k - 1

MissingSemicolonAfter(token) ==
    [kind |-> "MissingSemicolon", span |-> [offset |-> token.span.offset + token.span.len,
                                            len |-> 0]]

C18_Iteration ==
    (/\ ParseIteration
     /\ StatementTokens(parser) > 0
     /\ TokenAhead(parser, StatementTokens(parser)).token_kind \in AfterExpression)
    => LET n == StatementTokens(parser)
       IN /\ NewErrors = <<MissingSemicolonAfter(TokenAhead(parser, n - 1))>>
          /\ parser'.position = ResumesAt(parser, n)
          /\ Len(statements') = Len(statements) + 1

\* C18, inside a block: `{ print 1 } print 2;` yields one MissingSemicolon,
\* after the 1, and the `}` left in place closes the block.
C18_InBlock ==
    (ppc = "done" /\ parser.tokens = MkTokens(<<"{", "print", "1", "}", "print", "2", ";">>))
    => /\ parser.errors = <<MissingSemicolonAfter(parser.tokens[3])>>
       /\ Len(program.statements) = 2
       /\ program.statements[1].node = "Block"
       /\ Len(program.statements[1].statements) = 1

\* C18: when the expression of an expression or print statement, the value
\* of a return statement or the initializer of a var declaration is followed
\* by a token other than `;`, the parser reports MissingSemicolon at the
\* zero-length span at the end of the previous token and nothing else, keeps
\* the statement, and moves the cursor past the next `;`, or onto the `}` or
\* the EOF that comes first.
C18_MissingSemicolon == [][C18_Iteration]_vars /\ []C18_InBlock

\* `var x = 1 print x; print 2;`: the missing `;` has been reported after the
\* 1 and the cursor stands after the first `;`
C18_Witness ==
    /\ ppc = "loop"
    /\ parser.tokens =
           MkTokens(<<"var", "x", "=", "1", "print", "x", ";", "print", "2", ";">>)
    /\ parser.position = 7
    /\ parser.errors = <<MissingSemicolonAfter(parser.tokens[4])>>
    /\ Len(statements) = 1

\* a `var` declaration without initializer, or a `return` without value,
\* followed by a token other than `;`
C18_Bare ==
    (/\ ParseIteration
     /\ \/ /\ current_is(parser, "Var")
           /\ TokenAhead(parser, 1).token_kind = "Ident"
           /\ TokenAhead(parser, 2).token_kind \in AfterExpression
        \/ /\ current_is(parser, "Return")
           /\ TokenAhead(parser, 1).token_kind \in {"RightBrace", "EOF"})
    => LET n == IF current_is(parser, "Var") THEN 2 ELSE 1
       IN /\ NewErrors = <<MissingSemicolonAfter(TokenAhead(parser, n - 1))>>
          /\ parser'.position = ResumesAt(parser, n)

\* C18 as stated: every expression, print, var or return statement that is
\* not followed by `;` is reported as MissingSemicolon.
C18_EveryStatementKind == [][C18_Iteration /\ C18_Bare]_vars

\* C19: after the statement that fails on a redundant `;` (`; print 1;`) or
\* on a missing right operand before `;` (`1 + ; print 2;`), the parser
\* resumes at the statement that follows, and the Program holds that print
\* statement.
C19_FollowingStatementParsed ==
    (/\ ppc = "done"
     /\ \/ parser.tokens = MkTokens(<<";", "print", "1", ";">>)
        \/ parser.tokens = MkTokens(<<"1", "+", ";", "print", "2", ";">>))
    => /\ Len(parser.errors) = 1
       /\ Len(program.statements) = 1
       /\ program.statements[1].node = "PrintStmt"

\* the number of tokens of the left-hand side the cursor stands on, when it
\* is a variable (1), a number (1), `- x` (2), `x + 1` (3) or `( x + 1 )` (5)
\* followed by `=`; 0 otherwise
TargetTokens(p) ==
    CASE /\ current(p).token_kind \in {"Ident", "Number"}
         /\ TokenAhead(p, 1).token_kind = "Equal" -> 1
      [] /\ current(p).token_kind = "Minus"
         /\ TokenAhead(p, 1).token_kind = "Ident"
         /\ TokenAhead(p, 2).token_kind = "Equal" -> 2
      [] /\ current(p).token_kind = "LeftParen"
         /\ TokenAhead(p, 1).token_kind = "Ident"
         /\ TokenAhead(p, 2).token_kind = "Plus"
         /\ TokenAhead(p, 3).token_kind = "Number"
         /\ TokenAhead(p, 4).token_kind = "RightParen"
         /\ TokenAhead(p, 5).token_kind = "Equal" -> 5
      [] /\ current(p).token_kind = "Ident"
         /\ TokenAhead(p, 1).token_kind = "Plus"
         /\ TokenAhead(p, 2).token_kind = "Number"
         /\ TokenAhead(p, 3).token_kind = "Equal" -> 3
      [] OTHER -> 0

\* An iteration of the top-level loop on `target = value` with a value of
\* one variable or number: a variable target gives an expression statement
\* of an Assign node with that target and value, any other target gives
\* ExpectedIdentifier at the `=` and no statement.
C20_Iteration ==
    (/\ ParseIteration
     /\ TargetTokens(parser) > 0
     /\ TokenAhead(parser, TargetTokens(parser) + 1).token_kind \in {"Ident", "Number"}
     /\ TokenAhead(parser, TargetTokens(parser) + 2).token_kind
            \in AfterExpression \cup {"Semicolon"})
    => LET n == TargetTokens(parser)
           target == current(parser)
           equal == TokenAhead(parser, n)
           value == TokenAhead(parser, n + 1)
       IN IF n = 1 /\ target.token_kind = "Ident"
          THEN /\ Len(statements') = Len(statements) + 1
               /\ LET stmt == statements'[Len(statements')]
                  IN /\ stmt.node = "ExprStmt"
                     /\ stmt.expr.node = "Assign"
                     /\ stmt.expr.target = [name |-> target.lexeme, span |-> target.span]
                     /\ stmt.expr.value.node =
                            (IF value.token_kind = "Ident" THEN "Variable" ELSE "Literal")
                     /\ stmt.expr.value.span = value.span
               /\ \A e \in DOMAIN NewErrors : NewErrors[e].kind # "ExpectedIdentifier"
          ELSE /\ Len(NewErrors) = 1
               /\ NewErrors[1].kind = "ExpectedIdentifier"
               /\ NewErrors[1].span = equal.span
               /\ statements' = statements

\* C20, right associativity: `a = b = c;` yields Assign(a, Assign(b, c)).
C20_RightAssociative ==
    (ppc = "done" /\ parser.tokens = MkTokens(<<"a", "=", "b", "=", "c", ";">>))
    => /\ parser.errors = <<>>
       /\ Len(program.statements) = 1
       /\ LET expr == program.statements[1].expr
          IN /\ expr.node = "Assign"
             /\ expr.target.name = "a"
             /\ expr.value.node = "Assign"
             /\ expr.value.target.name = "b"
             /\ expr.value.value.node = "Variable"
             /\ expr.value.value.name = "c"

\* C20: in `target = value` an Assign node is produced only for a target
\* that parsed as a Variable; any other target with a parseable value fails
\* with ExpectedIdentifier at the span of the `=`; assignment is
\* right-associative.
C20_AssignmentTarget == [][C20_Iteration]_vars /\ []C20_RightAssociative

\* `( x + 1 ) = 2;`: the grouping target has been refused at the `=`
C20_Witness ==
    /\ ppc = "loop"
    /\ parser.tokens = MkTokens(<<"(", "x", "+", "1", ")", "=", "2", ";">>)
    /\ Len(parser.errors) = 1
    /\ parser.errors[1].kind = "ExpectedIdentifier"
    /\ parser.errors[1].span = parser.tokens[6].span
    /\ statements = <<>>

\* An iteration of the top-level loop on a variable or number, `or` or
\* `and`, and `;`.
C21_Iteration ==
    (/\ ParseIteration
     /\ current(parser).token_kind \in {"Ident", "Number"}
     /\ TokenAhead(parser, 1).token_kind \in {"Or", "And"}
     /\ TokenAhead(parser, 2).token_kind = "Semicolon")
    => /\ NewErrors = <<[kind |-> "ExpectedExpression", span |-> TokenAhead(parser, 2).span]>>
       /\ parser'.position = parser.position + 3
       /\ Len(statements') = Len(statements) + 1
       /\ LET stmt == statements'[Len(statements')]
          IN /\ stmt.node = "ExprStmt"
             /\ stmt.expr.node = "Logical"
             /\ stmt.expr.op = TokenAhead(parser, 1).token_kind
             /\ stmt.expr.left.span = current(parser).span
             /\ stmt.expr.right.node = "Literal"
             /\ stmt.expr.right.lit = "Bool"
             /\ stmt.expr.right.value = "false"

\* C21, the statement that follows: `x and ; print 1;` yields the one
\* diagnostic and both statements.
C21_Example ==
    (ppc = "done" /\ parser.tokens = MkTokens(<<"x", "and", ";", "print", "1", ";">>))
    => /\ Kinds(parser.errors) = <<"ExpectedExpression">>
       /\ Len(program.statements) = 2
       /\ program.statements[1].expr.node = "Logical"
       /\ program.statements[2].node = "PrintStmt"

\* C21: when `or` or `and` is followed at once by `;`, the parser reports
\* exactly one ExpectedExpression, builds a Logical node whose right operand
\* is the literal false, and leaves the `;` to the statement, which consumes
\* it and completes.
C21_LogicalOperandSubstituted == [][C21_Iteration]_vars /\ []C21_Example

\* the statement `x or ;` has been parsed
C21_Witness ==
    /\ ppc = "loop"
    /\ parser.tokens = MkTokens(<<"x", "or", ";">>)
    /\ parser.position = 3
    /\ Kinds(parser.errors) = <<"ExpectedExpression">>
    /\ Len(statements) = 1
    /\ statements[1].expr.node = "Logical"

\* a binary operator after a variable or number, with a token after it that
\* starts no operand
C22_RightOperand ==
    (/\ ParseIteration
     /\ current(parser).token_kind \in {"Ident", "Number"}
     /\ TokenAhead(parser, 1).token_kind \in {"Plus", "Minus"}
     /\ TokenAhead(parser, 2).token_kind \in {"Semicolon", "EOF", "Plus", "Comma", "Equal"})
    => /\ NewErrors = <<[kind |-> "MissingOperand", span |-> TokenAhead(parser, 1).span,
                         side |-> "right"]>>
       /\ statements' = statements

\* a binary operator at the start of a statement
C22_LeftOperand ==
    (/\ ParseIteration
     /\ current_is(parser, "Plus")
     /\ TokenAhead(parser, 1).token_kind \in {"Ident", "Number"})
    => /\ NewErrors = <<[kind |-> "MissingOperand", span |-> current(parser).span,
                         side |-> "left"]>>
       /\ statements' = statements

\* C22: a binary operator that is not followed by a parseable right operand
\* fails with MissingOperand, side "right", at the operator's span, and no
\* node is produced; a binary operator with no left operand fails with
\* MissingOperand, side "left".
C22_MissingOperand == [][C22_RightOperand /\ C22_LeftOperand]_vars

\* the place of the `(` of the parameter list the statement at the cursor
\* opens: `fun f (` or `print fun (`; 0 otherwise
ParameterListAt(p) ==
    IF /\ current(p).token_kind = "Fun"
       /\ TokenAhead(p, 1).token_kind = "Ident"
       /\ TokenAhead(p, 2).token_kind = "LeftParen"
    THEN 2
    ELSE IF /\ current(p).token_kind = "Print"
            /\ TokenAhead(p, 1).token_kind = "Fun"
            /\ TokenAhead(p, 2).token_kind = "LeftParen"
    THEN 2
    ELSE 0

\* the parameter list ends at EOF: directly after `(`, after a parameter
\* name, or after a parameter name and a `,`
EndsAtEOF(p, open) ==
    \/ TokenAhead(p, open + 1).token_kind = "EOF"
    \/ /\ TokenAhead(p, open + 1).token_kind = "Ident"
       /\ \/ TokenAhead(p, open + 2).token_kind = "EOF"
          \/ /\ TokenAhead(p, open + 2).token_kind = "Comma"
             /\ TokenAhead(p, open + 3).token_kind = "EOF"

C23_Iteration ==
    (/\ ParseIteration
     /\ ParameterListAt(parser) > 0
     /\ EndsAtEOF(parser, ParameterListAt(parser)))
    => NewErrors = <<[kind |-> "UnclosedDelimiter",
                      span |-> TokenAhead(parser, ParameterListAt(parser)).span,
                      delimiter |-> "LeftParen"]>>

\* C23: in the parameter list of a function or a lambda, EOF before the
\* closing `)`, directly after `(`, after a `,` or after a parameter name,
\* fails with UnclosedDelimiter at the span of the `(`.
C23_UnclosedParameterList == [][C23_Iteration]_vars

C24_Iteration ==
    (/\ ParseIteration
     /\ current_is(parser, "If")
     /\ TokenAhead(parser, 1).token_kind = "LeftParen"
     /\ TokenAhead(parser, 2).token_kind \in {"Ident", "Number"}
     /\ TokenAhead(parser, 3).token_kind = "RightParen"
     /\ TokenAhead(parser, 4).token_kind = "LeftBrace"
     /\ TokenAhead(parser, 5).token_kind = "RightBrace")
    => /\ Kinds(NewErrors) = <<"RedundantParenthesis">>
       /\ Len(statements') = Len(statements) + 1
       /\ LET stmt == statements'[Len(statements')]
          IN /\ stmt.node = "If"
             /\ stmt.condition.node = "Grouping"
             /\ stmt.condition.expr.span = TokenAhead(parser, 2).span
             /\ stmt.then_branch.statements = <<>>

\* C24: when the condition of an `if` is one parenthesised variable or
\* literal, `if ( x ) { }`, the parser reports RedundantParenthesis as its
\* only diagnostic and the If node has Grouping(x) as its condition and the
\* block that follows as its body.
C24_ParenthesisedCondition == [][C24_Iteration]_vars

C25_Iteration ==
    (/\ ParseIteration
     /\ \/ /\ current_is(parser, "LeftParen")
           /\ TokenAhead(parser, 1).token_kind = "RightParen"
        \/ /\ current_is(parser, "Print")
           /\ TokenAhead(parser, 1).token_kind = "LeftParen"
           /\ TokenAhead(parser, 2).token_kind = "RightParen")
    => LET n == IF current_is(parser, "Print") THEN 1 ELSE 0
           open == TokenAhead(parser, n).span
           close == TokenAhead(parser, n + 1).span
       IN /\ NewErrors # <<>>
          /\ NewErrors[1] = [kind |-> "ExpectedExpression",
                             span |-> [offset |-> open.offset,
                                       len |-> close.offset + close.len - open.offset]]

\* C25: an empty grouping `()` where a statement's expression starts fails
\* with ExpectedExpression whose span runs from the `(` to the `)`.
C25_EmptyGrouping == [][C25_Iteration]_vars

\* The step that resolves an assignment statement reports UndefinedVariable,
\* for the target, exactly when no scope binds the target's name, reports
\* nothing else, and leaves every scope as it is.
C26_Assignment ==
    (/\ rpc = "resolve"
     /\ todo # <<>>
     /\ Head(todo).node = "ExprStmt"
     /\ Head(todo).expr.node = "Assign")
    => LET target == Head(todo).expr.target
       IN /\ resolver'.errors =
                 resolver.errors \o
                 (IF Binders(resolver.scopes, target.name) = {}
                  THEN <<[kind |-> "UndefinedVariable", name |-> target.name,
                          span |-> target.span]>>
                  ELSE <<>>)
          /\ resolver'.scopes = resolver.scopes

AssignedThenReadStmt == declaration(Parser_new(MkTokens(AssignedThenRead), FALSE)).v

\* C26, the example: in `{ var x; x = 1; print x; }` the read of x after the
\* assignment reports UninitializedVariable, and nothing else is reported.
C26_Example ==
    (rpc = "done" /\ program.statements = <<AssignedThenReadStmt>>)
    => resolver.errors =
           <<[kind |-> "UninitializedVariable", name |-> "x",
              span |-> AssignedThenReadStmt.statements[3].expr.span]>>

\* C26: resolving an assignment reports UndefinedVariable exactly when the
\* target is bound in no scope and never changes an initialized flag: a read
\* of x after `var x; x = 1;` still reports UninitializedVariable.
C26_AssignmentKeepsFlags == [][C26_Assignment]_vars /\ []C26_Example

\* the assignment of AssignedThenRead has been resolved and the read is
\* next: x is still bound as uninitialized and nothing has been reported
C26_Witness ==
    /\ rpc = "resolve"
    /\ program.statements = <<AssignedThenReadStmt>>
    /\ Len(todo) = 2
    /\ Head(todo).node = "PrintStmt"
    /\ resolver.scopes[2] = [name \in {"x"} |-> [symbol |-> "Variable", initialized |-> FALSE]]
    /\ resolver.errors = <<>>

\* the byte offsets of the `"` of a source
Quotes(source) == {at \in 0..(Len(source) - 1) : source[at + 1] = "\""}

\* C27: for a source without comments whose only `"` stands at offset at,
\* Lexer::lex records exactly one error, an unterminated string from at to
\* the end of the source, produces no String token and no token from the
\* text after the quote, and ends the tokens with the EOF token.
C27_UnterminatedString ==
    (/\ lpc = "done"
     /\ Cardinality(Quotes(lexer.source)) = 1
     /\ \A i \in 1..Len(lexer.source) : lexer.source[i] # "/")
    => LET at == CHOOSE at \in Quotes(lexer.source) : TRUE
           n == Len(lexer.tokens)
       IN /\ \E e \in 1..n :
                /\ lexer.tokens[e] = [ok |-> FALSE, message |-> "unterminated string",
                                      from |-> at, to |-> Len(lexer.source)]
                /\ \A f \in 1..n :
                      (~lexer.tokens[f].ok /\ lexer.tokens[f].message = "unterminated string")
                      => f = e
          /\ \A i \in 1..(n - 1) :
                lexer.tokens[i].ok =>
                   /\ lexer.tokens[i].token_kind # "String"
                   /\ lexer.tokens[i].position < at
          /\ lexer.tokens[n].ok
          /\ lexer.tokens[n].token_kind = "EOF"

\* the reads of unbound names that stand as the value of an assignment or
\* as the callee or an argument of a call
UncheckedReads(expr) ==
    LET inside == CASE expr.node = "Assign" -> <<expr.value>>
                    [] expr.node = "Call" -> <<expr.callee>> \o expr.arguments
                    [] OTHER -> <<>>
    IN SelectSeq(inside, LAMBDA e : e.node = "Variable"
                                    /\ Binders(resolver.scopes, e.name) = {})

C28_Step ==
    (rpc = "resolve" /\ todo # <<>> /\ Head(todo).node = "ExprStmt")
    => \A i \in DOMAIN UncheckedReads(Head(todo).expr) :
          LET read == UncheckedReads(Head(todo).expr)[i]
          IN \E e \in (Len(resolver.errors) + 1)..Len(resolver'.errors) :
                resolver'.errors[e] = [kind |-> "UndefinedVariable", name |-> read.name,
                                       span |-> read.span]

\* C28: a read of an unbound name that stands as the value of an assignment
\* (`x = y;`) or as the callee or an argument of a call (`f(y);`) yields an
\* UndefinedVariable diagnostic with the read's name and span.
C28_EveryReadChecked == [][C28_Step]_vars

====
